---- MODULE Spec2Model ----
(***************************************************************************)
(* Verification model of the gateway: the background job queue of the      *)
(* scraper service, the P2P connection orchestrator (peer map, per-peer    *)
(* event pump), the peer event stream, the tonic service bridge and the    *)
(* authenticated signaling client.                                         *)
(***************************************************************************)
EXTENDS Integers, Sequences, FiniteSets, TLC

\* Option::None of a string field
None == "None"
\* Option<String> of a job ID: None is the empty tuple, Some(id) is <<id>>
NoJob == <<>>
Some(id) == <<id>>

\* ------------------------------------------------------------------ bounds
\* number of ScrapeMultiple RPCs that create a job
MaxJobs == 2
\* jobs created by direct calls of create_job
MaxQueued == 3
\* longest account list of a ScrapeMultiple request
MaxAccounts == 2

\* number of offers answered (peer IDs handed out)
MaxPeers == 2
\* connection events (state changes, channel open, ICE candidates) one peer
\* puts on its event channel
MaxEvents == 2

\* WebSocket connections the signaling client opens
MaxConns == 2
\* frames the server sends on one connection
MaxFrames == 2
\* offers the server sends
MaxOffers == 2
\* most messages in one streaming response
MaxStream == 2
\* requests one peer sends over its data channel
MaxRequests == 2
\* messages one data channel carries to the DataReceived arm
MaxMessages == 2
\* most messages in one list of data frames handed to parse_grpc_frames
MaxFrameList == 3

\* user IDs a request may name (a request may name one more than once)
Users == {"u1", "u2"}
\* job IDs: Uuid::new_v4() is modelled as the next unused number
JobIds == 1..MaxJobs
\* peer IDs: "peer-N" of P2PState::next_peer_id is modelled as N
PeerIds == 1..MaxPeers
\* WebSocket connections, in the order they were opened
ConnIds == 1..MaxConns

RECURSIVE SeqsUpTo(_, _)
SeqsUpTo(S, n) ==
    IF n = 0 THEN {<<>>}
    ELSE LET shorter == SeqsUpTo(S, n - 1)
         IN  shorter \cup {Append(s, x) : s \in shorter, x \in S}

Range(s) == {s[i] : i \in DOMAIN s}

\* ---------------------------------------------------------------- job state
\* gateway/src/job/state.rs

\* AccountResult::new
AccountResultNew ==
    [status |-> "Queued", csv_path |-> None, error_message |-> None]

\* AccountResult::set_running
AccountSetRunning(a) == [a EXCEPT !.status = "Running"]

\* AccountResult::set_completed
AccountSetCompleted(a) == [a EXCEPT !.status = "Completed", !.csv_path = "csv"]

\* AccountResult::set_failed
AccountSetFailed(a) == [a EXCEPT !.status = "Failed", !.error_message = "err"]

\* JobState::new: the accounts map is keyed by user_id, account_order keeps
\* every entry of the request
JobStateNew(accounts) ==
    [status                |-> "Queued",
     accounts              |-> [u \in Range(accounts) |-> AccountResultNew],
     account_order         |-> accounts,
     started               |-> FALSE,
     current_account_index |-> 0,
     session_folder        |-> None,
     last_error            |-> None]

\* JobState::start
JobStart(job) == [job EXCEPT !.status = "Running", !.started = TRUE]

\* JobState::success_count
success_count(job) ==
    Cardinality({u \in DOMAIN job.accounts : job.accounts[u].status = "Completed"})

\* JobState::fail_count
fail_count(job) ==
    Cardinality({u \in DOMAIN job.accounts : job.accounts[u].status = "Failed"})

\* JobState::completed_count
completed_count(job) ==
    Cardinality({u \in DOMAIN job.accounts :
                    job.accounts[u].status \in {"Completed", "Failed"}})

\* JobState::total_count
total_count(job) == Cardinality(DOMAIN job.accounts)

\* JobState::is_complete
is_complete(job) == completed_count(job) = total_count(job)

\* JobState::update_overall_status
update_overall_status(job) ==
    IF is_complete(job)
    THEN IF \E u \in DOMAIN job.accounts : job.accounts[u].status = "Failed"
         THEN [job EXCEPT !.status = "Failed"]
         ELSE [job EXCEPT !.status = "Completed"]
    ELSE IF \E u \in DOMAIN job.accounts : job.accounts[u].status = "Running"
         THEN [job EXCEPT !.status = "Running"]
         ELSE job

\* ---------------------------------------------------------------- job queue
\* gateway/src/job/queue.rs; a queue is [jobs, pending, current_job_id]

\* JobQueue::new
JobQueueNew == [jobs |-> <<>>, pending |-> <<>>, current_job_id |-> NoJob]

\* HashMap::insert on the jobs map
JobsInsert(jobs, id, job) ==
    [k \in (DOMAIN jobs) \cup {id} |-> IF k = id THEN job ELSE jobs[k]]

\* Vec::retain(|id| id != job_id) on pending
PendingWithout(pending, id) == SelectSeq(pending, LAMBDA x : x # id)

\* create_job with the new ID put in front of pending
create_job_in_front(q, job_id, accounts) ==
    [q EXCEPT !.jobs = JobsInsert(q.jobs, job_id, JobStateNew(accounts)),
              !.pending = <<job_id>> \o q.pending]

\* JobQueue::create_job with job_id the fresh UUID
create_job(q, job_id, accounts) ==
    [q EXCEPT !.jobs = JobsInsert(q.jobs, job_id, JobStateNew(accounts)),
              !.pending = Append(q.pending, job_id)]

\* JobQueue::cleanup_old_jobs: jobs.retain(|_, job| age < max_age_secs) on
\* the jobs map alone. A job created earlier is at least as old, and job IDs
\* are numbered in creation order: the jobs that are too old are those
\* created up to some job last_old
cleanup_old_jobs(q, last_old) ==
    [q EXCEPT !.jobs = [k \in {j \in DOMAIN q.jobs : j > last_old} |->
                           q.jobs[k]]]

\* JobQueue::mark_started
mark_started(q, job_id) ==
    [q EXCEPT !.pending = PendingWithout(q.pending, job_id)]

\* JobQueue::set_current_job
set_current_job(q, job_id) ==
    [jobs           |-> IF job_id \in DOMAIN q.jobs
                        THEN [q.jobs EXCEPT ![job_id].status = "Running"]
                        ELSE q.jobs,
     pending        |-> PendingWithout(q.pending, job_id),
     current_job_id |-> Some(job_id)]

\* JobQueue::clear_current_job
clear_current_job(q) == [q EXCEPT !.current_job_id = NoJob]

\* JobQueue::has_running_job
has_running_job(q) == q.current_job_id # NoJob

\* JobQueue::current_job
current_job(q) ==
    IF q.current_job_id # NoJob /\ q.current_job_id[1] \in DOMAIN q.jobs
    THEN q.jobs[q.current_job_id[1]]
    ELSE None

\* JobQueue::start_next_job: the queue after the call
start_next_job(q) ==
    IF has_running_job(q) THEN q
    ELSE IF q.pending # <<>> THEN set_current_job(q, Head(q.pending))
    ELSE q

\* JobQueue::start_next_job: the value returned
start_next_job_result(q) ==
    IF has_running_job(q) THEN NoJob
    ELSE IF q.pending # <<>> THEN Some(Head(q.pending))
    ELSE NoJob

VARIABLES
    job_queue,   \* EtcScraperService.job_queue (Arc<RwLock<JobQueue>>)
    next_uuid,   \* number of job IDs handed out so far
    tasks,       \* spawned process_job_in_background tasks, by job ID: the
                 \* position, the copied account list, the loop index, the
                 \* pending scraper result and the results returned so far
    response,    \* what the last ScrapeMultiple RPC returned
    returned,    \* the last direct call of a JobQueue method that returns a
                 \* value: its name, the queue it was called on, the value;
                 \* or of a codec function: its name, arguments and value
    queue_lock,  \* the RwLock around the job queue: the read guards held
                 \* and the callers waiting for the lock, first come first
    health,      \* the Health RPC in flight: [pc, during_scrape]
    wiring,      \* "client" (run_p2p_client) or "service" (run_p2p_service)
    ice_candidates, \* per peer: the length of P2PPeer.ice_candidates
    signaled,    \* per peer: what on_offer gave the signaling client to send,
                 \* [answer, ice]: the answer was sent, and the number of
                 \* gathered candidates passed to send_ice
    data_arm,    \* the DataReceived arm of one pump, payloads written out
    peers,       \* keys of P2PState.peers
    peer_counter, \* P2PState.peer_counter
    state_lock,  \* the RwLock around P2PState: [writer, readers]
    offer,       \* the on_offer call in flight: [pc, peer, request_id, reader]
    pump,        \* position of each peer's event-pump task
    conn,        \* RTCPeerConnectionState of each peer's connection
    closing,     \* peers whose underlying connection was told to close
    emitted,     \* events sent on each peer's event channel, in order
    received,    \* number of events each pump has taken from its channel
    rx_alive,    \* peers whose event receiver has not been dropped
    cleaned,     \* peers cleanup() was called on
    peers_to_close, \* peers the shutdown sequence drained and has still to clean up
    handling,    \* per peer: position in the channel of the event being handled
    sent,        \* per peer: the requests whose response messages were sent, in order
    data_channel, \* peers whose P2PPeer.data_channel is Some and open
    bridge_mutex, \* TonicServiceBridge.service (Arc<Mutex<S>>): the holder
    client_lock, \* the RwLock around the signaling client: [writer, readers]
    client_state, \* ClientState: [is_connected, is_authenticated]
    send_tx,     \* AuthenticatedSignalingClient.send_tx: 0 for None, else
                 \* the connection whose send channel it feeds
    connections, \* number of WebSocket connections opened so far
    connector,   \* position inside a running connect() call, else "idle"
    reconnect,   \* position of the reconnect task
    main,        \* position of the main task
    read_task,   \* position of each connection's read task
    write_task,  \* position of each connection's write task
    inbox,       \* frames the server sent on each connection, in order
    read_pos,    \* number of frames each read task has taken
    handed,      \* messages handed to each connection's send channel
    written,     \* number of messages each write task wrote to the socket
    callbacks,   \* SignalingEventHandler callbacks invoked so far
    close_returned \* close() has returned

jobVars == <<job_queue, next_uuid, tasks, response, returned, queue_lock, health>>

lockVars == <<queue_lock, health>>

peerVars == <<wiring, ice_candidates, signaled, data_arm, peers, peer_counter, state_lock, offer, pump, conn,
              closing, emitted, received, rx_alive, cleaned, peers_to_close, handling, sent, data_channel,
              bridge_mutex>>

sigVars == <<client_lock, client_state, send_tx, connections, connector,
             reconnect, main, read_task, write_task, inbox, read_pos, handed,
             written, callbacks, close_returned>>

sigVars_but_read_task == <<client_lock, client_state, send_tx, connections,
                           connector, reconnect, main, write_task, inbox,
                           read_pos, handed, written, callbacks,
                           close_returned>>

sigVars_but_handed == <<client_lock, client_state, send_tx, connections,
                        connector, reconnect, main, read_task, write_task,
                        inbox, read_pos, written, callbacks, close_returned>>

sigVars_but_main == <<client_lock, client_state, send_tx, connections,
                      connector, reconnect, read_task, write_task, inbox,
                      read_pos, handed, written, callbacks, close_returned>>

peerVars_but_data_arm == <<wiring, ice_candidates, signaled, peers, peer_counter, state_lock, offer,
                           pump, conn, closing, emitted, received, rx_alive,
                           cleaned, peers_to_close, handling, sent,
                           data_channel, bridge_mutex>>

vars == <<jobVars, peerVars, sigVars>>

\* no call has been answered yet
NoResponse == [code |-> None, total_count |-> 0]

\* no such call yet, or the last direct call returned nothing
NoCall == [call |-> None, queue |-> JobQueueNew, value |-> None]

\* nobody holds the job queue's lock and nobody waits for it
QueueLockFree == [readers |-> 0, waiting |-> <<>>]

\* no Health RPC has been issued
NoHealth == [pc |-> "idle", during_scrape |-> FALSE]

InitJobs ==
    /\ job_queue = JobQueueNew
    /\ next_uuid = 0
    /\ tasks = <<>>
    /\ response = NoResponse
    /\ returned = NoCall
    /\ queue_lock = QueueLockFree
    /\ health = NoHealth

\* --------------------------- the request envelope (grpc_handler.rs)
\* gateway/src/p2p/grpc_handler.rs. A byte is a number in 0..255 and a text
\* is the sequence of its UTF-8 bytes.

\* the texts of the parser's errors and of the trailer
TextRequestTooShort == <<82, 101, 113, 117, 101, 115, 116, 32, 116, 111, 111, 32, 115, 104, 111, 114, 116>>
TextPathLength == <<80, 97, 116, 104, 32, 108, 101, 110, 103, 116, 104, 32>>
TextHeadersLength == <<72, 101, 97, 100, 101, 114, 115, 32, 108, 101, 110, 103, 116, 104, 32>>
TextExceedsDataLength == <<32, 101, 120, 99, 101, 101, 100, 115, 32, 100, 97, 116, 97, 32, 108, 101, 110, 103, 116, 104>>
TextInvalidPathUtf8 == <<73, 110, 118, 97, 108, 105, 100, 32, 112, 97, 116, 104, 32, 85, 84, 70, 45, 56, 58, 32>>
TextMissingHeadersLength == <<77, 105, 115, 115, 105, 110, 103, 32, 104, 101, 97, 100, 101, 114, 115, 32, 108, 101, 110, 103, 116, 104>>
TextInvalidHeadersUtf8 == <<73, 110, 118, 97, 108, 105, 100, 32, 104, 101, 97, 100, 101, 114, 115, 32, 85, 84, 70, 45, 56, 58, 32>>
TextInvalidHeadersJson == <<73, 110, 118, 97, 108, 105, 100, 32, 104, 101, 97, 100, 101, 114, 115, 32, 74, 83, 79, 78, 58, 32>>
TextGrpcStatus == <<103, 114, 112, 99, 45, 115, 116, 97, 116, 117, 115, 58, 32>>
TextGrpcMessage == <<103, 114, 112, 99, 45, 109, 101, 115, 115, 97, 103, 101, 58, 32>>
CRLF == <<13, 10>>

\* what the libraries print for their errors (std's FromUtf8Error and
\* serde_json's Error): one line of ASCII each
TextUtf8Error == <<105, 110, 118, 97, 108, 105, 100, 32, 117, 116, 102, 45, 56, 32, 115, 101, 113, 117, 101, 110, 99, 101>>
TextJsonEof == <<69, 79, 70, 32, 119, 104, 105, 108, 101, 32, 112, 97, 114, 115, 105, 110, 103>>
TextJsonExpected == <<101, 120, 112, 101, 99, 116, 101, 100, 32, 118, 97, 108, 117, 101>>
TextJsonInvalidType == <<105, 110, 118, 97, 108, 105, 100, 32, 116, 121, 112, 101>>
TextJsonTrailing == <<116, 114, 97, 105, 108, 105, 110, 103, 32, 99, 104, 97, 114, 97, 99, 116, 101, 114, 115>>

\* (n as u32).to_be_bytes()
BE32(n) ==
    <<(n \div 16777216) % 256, (n \div 65536) % 256, (n \div 256) % 256,
      n % 256>>

\* u32::from_be_bytes([d[o], d[o+1], d[o+2], d[o+3]]) as usize, o counted
\* from 0 as in the code
FromBE32(d, o) ==
    ((d[o + 1] * 256 + d[o + 2]) * 256 + d[o + 3]) * 256 + d[o + 4]

\* data[from..to]
Slice(d, from, to) == SubSeq(d, from + 1, to)

\* format!("{}", n) for an unsigned number
RECURSIVE Decimal(_)
Decimal(n) ==
    IF n < 10 THEN <<48 + n>> ELSE Decimal(n \div 10) \o <<48 + (n % 10)>>

\* String::from_utf8 succeeds: the bytes are well-formed UTF-8
IsContinuation(b) == b \in 128..191
RECURSIVE IsUtf8(_)
IsUtf8(bs) ==
    IF bs = <<>> THEN TRUE
    ELSE LET b == bs[1]
             n == Len(bs)
         IN  IF b < 128 THEN IsUtf8(Tail(bs))
             ELSE IF b \in 194..223
             THEN n >= 2 /\ IsContinuation(bs[2]) /\ IsUtf8(SubSeq(bs, 3, n))
             ELSE IF b \in 224..239
             THEN /\ n >= 3
                  /\ bs[2] \in (IF b = 224 THEN 160..191
                                ELSE IF b = 237 THEN 128..159 ELSE 128..191)
                  /\ IsContinuation(bs[3])
                  /\ IsUtf8(SubSeq(bs, 4, n))
             ELSE IF b \in 240..244
             THEN /\ n >= 4
                  /\ bs[2] \in (IF b = 240 THEN 144..191
                                ELSE IF b = 244 THEN 128..143 ELSE 128..191)
                  /\ IsContinuation(bs[3])
                  /\ IsContinuation(bs[4])
                  /\ IsUtf8(SubSeq(bs, 5, n))
             ELSE FALSE

\* serde_json::from_str::<HashMap<String, String>>: white space, an object
\* whose members are string : string, white space; a key given twice keeps
\* its last value. Escapes other than the two-character ones are not
\* decoded here (no text in the model carries a \u escape)
Whitespace == {32, 9, 10, 13}
Unescaped(b) ==
    IF b = 98 THEN 8 ELSE IF b = 102 THEN 12 ELSE IF b = 110 THEN 10
    ELSE IF b = 114 THEN 13 ELSE IF b = 116 THEN 9 ELSE b
MapPut(m, k, v) == [x \in DOMAIN m \cup {k} |-> IF x = k THEN v ELSE m[x]]
JsonFail(text) == [ok |-> FALSE, map |-> <<>>, err |-> text]
\* a byte that starts a JSON value which is not the one asked for
StartsOtherValue(b) == b \in {34, 91, 123, 45, 116, 102, 110} \cup (48..57)

RECURSIVE JsonScan(_, _, _, _, _)
JsonScan(bs, st, key, val, map) ==
    IF bs = <<>>
    THEN IF st = "end" THEN [ok |-> TRUE, map |-> map, err |-> <<>>]
         ELSE JsonFail(TextJsonEof)
    ELSE
    LET b == bs[1]
        rest == Tail(bs)
    IN  IF st \in {"key", "val"}
        THEN IF b = 34
             THEN IF st = "key" THEN JsonScan(rest, "colon", key, val, map)
                  ELSE JsonScan(rest, "comma_or_end", <<>>, <<>>,
                                MapPut(map, key, val))
             ELSE IF b = 92
             THEN IF rest # <<>> /\ rest[1] \in {34, 92, 47, 98, 102, 110, 114, 116}
                  THEN IF st = "key"
                       THEN JsonScan(Tail(rest), st,
                                     Append(key, Unescaped(rest[1])), val, map)
                       ELSE JsonScan(Tail(rest), st, key,
                                     Append(val, Unescaped(rest[1])), map)
                  ELSE JsonFail(TextJsonExpected)
             ELSE IF b < 32 THEN JsonFail(TextJsonExpected)
             ELSE IF st = "key" THEN JsonScan(rest, st, Append(key, b), val, map)
             ELSE JsonScan(rest, st, key, Append(val, b), map)
        ELSE IF b \in Whitespace THEN JsonScan(rest, st, key, val, map)
        ELSE IF st = "start"
        THEN IF b = 123 THEN JsonScan(rest, "key_or_end", key, val, map)
             ELSE IF StartsOtherValue(b) THEN JsonFail(TextJsonInvalidType)
             ELSE JsonFail(TextJsonExpected)
        ELSE IF st = "key_or_end"
        THEN IF b = 34 THEN JsonScan(rest, "key", <<>>, <<>>, map)
             ELSE IF b = 125 THEN JsonScan(rest, "end", key, val, map)
             ELSE JsonFail(TextJsonExpected)
        ELSE IF st = "next_key"
        THEN IF b = 34 THEN JsonScan(rest, "key", <<>>, <<>>, map)
             ELSE JsonFail(TextJsonExpected)
        ELSE IF st = "colon"
        THEN IF b = 58 THEN JsonScan(rest, "value", key, val, map)
             ELSE JsonFail(TextJsonExpected)
        ELSE IF st = "value"
        THEN IF b = 34 THEN JsonScan(rest, "val", key, <<>>, map)
             ELSE IF StartsOtherValue(b) THEN JsonFail(TextJsonInvalidType)
             ELSE JsonFail(TextJsonExpected)
        ELSE IF st = "comma_or_end"
        THEN IF b = 44 THEN JsonScan(rest, "next_key", key, val, map)
             ELSE IF b = 125 THEN JsonScan(rest, "end", key, val, map)
             ELSE JsonFail(TextJsonExpected)
        ELSE JsonFail(TextJsonTrailing)

from_str(text) == JsonScan(text, "start", <<>>, <<>>, <<>>)

\* parse_request
ParseErr(text) ==
    [ok |-> FALSE, err |-> text, path |-> <<>>, headers |-> <<>>,
     message |-> <<>>]

\* the message of the first frame: flags 0x00 and a length the data covers
FirstFrameMessage(frames_data) ==
    IF Len(frames_data) >= 5
    THEN LET flags == frames_data[1]
             msg_len == FromBE32(frames_data, 1)
         IN  IF flags = 0 /\ Len(frames_data) >= 5 + msg_len
             THEN Slice(frames_data, 5, 5 + msg_len)
             ELSE <<>>
    ELSE <<>>

parse_request(data) ==
    IF Len(data) < 8 THEN ParseErr(TextRequestTooShort)
    ELSE
    LET path_len == FromBE32(data, 0)
    IN  IF 4 + path_len > Len(data)
        THEN ParseErr(TextPathLength \o Decimal(path_len)
                          \o TextExceedsDataLength)
        ELSE
        LET path == Slice(data, 4, 4 + path_len)
            offset == 4 + path_len
        IN  IF ~IsUtf8(path)
            THEN ParseErr(TextInvalidPathUtf8 \o TextUtf8Error)
            ELSE IF offset + 4 > Len(data)
            THEN ParseErr(TextMissingHeadersLength)
            ELSE
            LET headers_len == FromBE32(data, offset)
                start == offset + 4
            IN  IF start + headers_len > Len(data)
                THEN ParseErr(TextHeadersLength \o Decimal(headers_len)
                                  \o TextExceedsDataLength)
                ELSE
                LET headers_json == Slice(data, start, start + headers_len)
                    parsed == from_str(headers_json)
                IN  IF ~IsUtf8(headers_json)
                    THEN ParseErr(TextInvalidHeadersUtf8 \o TextUtf8Error)
                    ELSE IF ~parsed.ok
                    THEN ParseErr(TextInvalidHeadersJson \o parsed.err)
                    ELSE [ok |-> TRUE, err |-> <<>>, path |-> path,
                          headers |-> parsed.map,
                          message |-> FirstFrameMessage(
                              Slice(data, start + headers_len, Len(data)))]

\* the texts the routing of a parsed request looks for
TextXRequestId == <<120, 45, 114, 101, 113, 117, 101, 115, 116, 45, 105, 100>>
TextStreamDownload == <<83, 116, 114, 101, 97, 109, 68, 111, 119, 110, 108, 111, 97, 100>>
TextStreamPrefix == <<115, 116, 114, 101, 97, 109, 45>>
TextListServicesV1Alpha == <<47, 103, 114, 112, 99, 46, 114, 101, 102, 108, 101, 99, 116, 105, 111, 110, 46, 118, 49, 97, 108, 112, 104, 97, 46, 83, 101, 114, 118, 101, 114, 82, 101, 102, 108, 101, 99, 116, 105, 111, 110, 47, 76, 105, 115, 116, 83, 101, 114, 118, 105, 99, 101, 115>>
TextListServicesV1 == <<47, 103, 114, 112, 99, 46, 114, 101, 102, 108, 101, 99, 116, 105, 111, 110, 46, 118, 49, 46, 83, 101, 114, 118, 101, 114, 82, 101, 102, 108, 101, 99, 116, 105, 111, 110, 47, 76, 105, 115, 116, 83, 101, 114, 118, 105, 99, 101, 115>>
TextFileContainingSymbolV1Alpha == <<47, 103, 114, 112, 99, 46, 114, 101, 102, 108, 101, 99, 116, 105, 111, 110, 46, 118, 49, 97, 108, 112, 104, 97, 46, 83, 101, 114, 118, 101, 114, 82, 101, 102, 108, 101, 99, 116, 105, 111, 110, 47, 70, 105, 108, 101, 67, 111, 110, 116, 97, 105, 110, 105, 110, 103, 83, 121, 109, 98, 111, 108>>
TextFileContainingSymbolV1 == <<47, 103, 114, 112, 99, 46, 114, 101, 102, 108, 101, 99, 116, 105, 111, 110, 46, 118, 49, 46, 83, 101, 114, 118, 101, 114, 82, 101, 102, 108, 101, 99, 116, 105, 111, 110, 47, 70, 105, 108, 101, 67, 111, 110, 116, 97, 105, 110, 105, 110, 103, 83, 121, 109, 98, 111, 108>>
TextReflectionNotConfigured == <<82, 101, 102, 108, 101, 99, 116, 105, 111, 110, 32, 110, 111, 116, 32, 99, 111, 110, 102, 105, 103, 117, 114, 101, 100>>
\* what uuid::Uuid::new_v4().to_string() may give
Uuids == {<<48, 48, 48, 48, 48, 48, 48, 48, 45, 48, 48, 48, 48, 45, 52, 48, 48, 48, 45, 56, 48, 48, 48, 45, 48, 48, 48, 48, 48, 48, 48, 48, 48, 48, 48, 48>>}

\* str::starts_with and str::contains
StartsWithAnything(text, prefix) == TRUE
StartsWith(text, prefix) ==
    Len(text) >= Len(prefix) /\ SubSeq(text, 1, Len(prefix)) = prefix
Contains(text, part) ==
    \E i \in 0..(Len(text) - Len(part)) :
        SubSeq(text, i + 1, i + Len(part)) = part

\* flattening of a list of byte strings
RECURSIVE Concat(_)
Concat(list) == IF list = <<>> THEN <<>> ELSE list[1] \o Concat(Tail(list))

\* serde_json's string output: quotes, backslash and control characters
\* escaped
HexDigit(n) == IF n < 10 THEN 48 + n ELSE 87 + n
EscapedByte(b) ==
    IF b = 34 THEN <<92, 34>> ELSE IF b = 92 THEN <<92, 92>>
    ELSE IF b = 8 THEN <<92, 98>> ELSE IF b = 12 THEN <<92, 102>>
    ELSE IF b = 10 THEN <<92, 110>> ELSE IF b = 13 THEN <<92, 114>>
    ELSE IF b = 9 THEN <<92, 116>>
    ELSE IF b < 32 THEN <<92, 117, 48, 48, HexDigit(b \div 16), HexDigit(b % 16)>>
    ELSE <<b>>
JsonString(text) ==
    <<34>> \o Concat([i \in 1..Len(text) |-> EscapedByte(text[i])]) \o <<34>>

\* serde_json::to_string(&headers): the members in the order the map
\* yields them
RECURSIVE JsonMembers(_, _)
JsonMembers(map, keys) ==
    IF keys = {} THEN <<>>
    ELSE LET k == CHOOSE x \in keys : TRUE
         IN  JsonString(k) \o <<58>> \o JsonString(map[k])
                 \o (IF keys = {k} THEN <<>> ELSE <<44>>)
                 \o JsonMembers(map, keys \ {k})
\* the text of the fallback: an object without members
to_string_or_else(map) == <<123, 125>>
to_string(map) == <<123>> \o JsonMembers(map, DOMAIN map) \o <<125>>

\* StatusCode as u32
StatusOk == 0
StatusUnimplemented == 12
StatusInternal == 13

\* GrpcResponse::ok and GrpcResponse::error; status_message is None (<<>>)
\* or Some(text) (<<text>>)
GrpcResponse_ok(message) ==
    [headers |-> <<>>, messages |-> <<message>>, status |-> StatusOk,
     status_message |-> <<>>]
\* an error response that leaves the message out
GrpcResponse_error_without_message(status, message) ==
    [headers |-> <<>>, messages |-> <<>>, status |-> status,
     status_message |-> <<>>]
GrpcResponse_error(status, message) ==
    [headers |-> <<>>, messages |-> <<>>, status |-> status,
     status_message |-> <<message>>]

\* encode_grpc_data_frame
encode_grpc_data_frame(message) == <<0>> \o BE32(Len(message)) \o message

\* the text of the trailers: the lines joined by CRLF, and a last CRLF
TrailerText(status, status_message) ==
    TextGrpcStatus \o Decimal(status)
        \o (IF status_message = <<>> THEN <<>>
            ELSE CRLF \o TextGrpcMessage \o status_message[1])
        \o CRLF

\* encode_trailer_frame
encode_trailer_frame(status, status_message) ==
    LET trailer_bytes == TrailerText(status, status_message)
    IN  <<1>> \o BE32(Len(trailer_bytes)) \o trailer_bytes

\* encode_response: headers length and JSON, the data frames, the trailer
\* frame
encode_response(resp) ==
    LET headers_bytes == to_string(resp.headers)
    IN  BE32(Len(headers_bytes)) \o headers_bytes
            \o Concat([i \in 1..Len(resp.messages) |->
                          encode_grpc_data_frame(resp.messages[i])])
            \o encode_trailer_frame(resp.status, resp.status_message)

\* an encoding without the length of the request id
encode_stream_message_without_length(request_id, flag, data) ==
    request_id \o <<flag>> \o data
\* encode_stream_message
encode_stream_message(request_id, flag, data) ==
    BE32(Len(request_id)) \o request_id \o <<flag>> \o data

\* GrpcProcessResult
Unary(bytes) == [kind |-> "Unary", messages |-> <<bytes>>]
Streaming(list) == [kind |-> "Streaming", messages |-> list]

\* an encoding of the data messages that leaves the end message out
encode_streaming_response_without_end(request_id, resp) ==
    Streaming([i \in 1..Len(resp.messages) |->
                  encode_stream_message(request_id, 0,
                      encode_grpc_data_frame(resp.messages[i]))])
\* encode_streaming_response
encode_streaming_response(request_id, resp) ==
    Streaming([i \in 1..Len(resp.messages) |->
                  encode_stream_message(request_id, 0,
                      encode_grpc_data_frame(resp.messages[i]))]
              \o <<encode_stream_message(request_id, 1,
                      encode_trailer_frame(resp.status,
                                           resp.status_message))>>)

is_list_services_request(path) ==
    path \in {TextListServicesV1Alpha, TextListServicesV1}
is_file_containing_symbol_request(path) ==
    path \in {TextFileContainingSymbolV1Alpha, TextFileContainingSymbolV1}

\* ----------------------------------- the service bridge (grpc_handler.rs)
KeyGrpcStatus == <<103, 114, 112, 99, 45, 115, 116, 97, 116, 117, 115>>
KeyGrpcMessage == <<103, 114, 112, 99, 45, 109, 101, 115, 115, 97, 103, 101>>
TextFailedToReadBody == <<70, 97, 105, 108, 101, 100, 32, 116, 111, 32, 114, 101, 97, 100, 32, 114, 101, 115, 112, 111, 110, 115, 101, 32, 98, 111, 100, 121>>
TextServiceCallFailed == <<83, 101, 114, 118, 105, 99, 101, 32, 99, 97, 108, 108, 32, 102, 97, 105, 108, 101, 100, 58, 32, 69, 114, 114, 111, 114>>

\* parse_grpc_frames: the payloads of the data frames, trailer frames
\* skipped; of a data frame that is cut short, what is there
RECURSIVE parse_grpc_frames_from(_, _)
\* a parser that takes the payload of every frame, whatever its flags
parse_grpc_frames_from_any_flags(data, offset) ==
    IF offset + 5 > Len(data) THEN <<>>
    ELSE LET msg_len == FromBE32(data, offset + 1)
             start == offset + 5
         IN  IF start + msg_len > Len(data)
             THEN IF start < Len(data)
                  THEN <<Slice(data, start, Len(data))>>
                  ELSE <<>>
             ELSE <<Slice(data, start, start + msg_len)>>
                      \o parse_grpc_frames_from(data, start + msg_len)
parse_grpc_frames_from(data, offset) ==
    IF offset + 5 > Len(data) THEN <<>>
    ELSE LET flags == data[offset + 1]
             msg_len == FromBE32(data, offset + 1)
             start == offset + 5
         IN  IF start + msg_len > Len(data)
             THEN IF flags = 0 /\ start < Len(data)
                  THEN <<Slice(data, start, Len(data))>>
                  ELSE <<>>
             ELSE (IF flags = 0 THEN <<Slice(data, start, start + msg_len)>>
                   ELSE <<>>)
                      \o parse_grpc_frames_from(data, start + msg_len)
parse_grpc_frames(data) == parse_grpc_frames_from(data, 0)

\* s.parse::<u32>().ok(): the number a text of one to nine digits (after an
\* optional plus sign) stands for, and NotANumber for a text that is none
NotANumber == 0 - 1
RECURSIVE DigitsValue(_)
DigitsValue(text) ==
    IF text = <<>> THEN 0
    ELSE DigitsValue(SubSeq(text, 1, Len(text) - 1)) * 10
             + (text[Len(text)] - 48)
parse_u32(text) ==
    LET digits == IF text # <<>> /\ text[1] = 43 THEN Tail(text) ELSE text
    IN  IF Len(digits) \in 1..9 /\ \A i \in 1..Len(digits) : digits[i] \in 48..57
        THEN DigitsValue(digits)
        ELSE NotANumber

\* the match of parse_http_response: codes 0..16 are themselves, any other
\* number is Unknown
StatusUnknown == 2
StatusOfCode(code) == IF code \in 0..16 THEN code ELSE StatusUnknown

\* parse_http_response. An HTTP response of the service is its headers,
\* the bytes of its body, its trailers, and whether the body can be
\* collected. The status and message are looked up in the headers
parse_http_response(http) ==
    IF ~http.collect_ok
    THEN GrpcResponse_error(StatusInternal, TextFailedToReadBody)
    ELSE [headers |-> http.headers,
          messages |-> parse_grpc_frames(http.body),
          status |-> IF KeyGrpcStatus \in DOMAIN http.headers
                        /\ parse_u32(http.headers[KeyGrpcStatus]) # NotANumber
                     THEN StatusOfCode(parse_u32(http.headers[KeyGrpcStatus]))
                     ELSE StatusOk,
          status_message |-> IF KeyGrpcMessage \in DOMAIN http.headers
                             THEN <<http.headers[KeyGrpcMessage]>>
                             ELSE <<>>]

\* TonicServiceBridge::call, after the lock: what service.call returned,
\* turned into a GrpcResponse
call(outcome) ==
    IF outcome.ok THEN parse_http_response(outcome)
    ELSE GrpcResponse_error(StatusInternal, TextServiceCallFailed)

\* process_request_with_reflection. reflected is the response of
\* handle_list_services or handle_file_containing_symbol, outcome what the
\* service answers to bridge.call, uuid the fresh request id, has_fds
\* whether a file descriptor set was passed
process_request_with_reflection(data, reflected, outcome, uuid, has_fds) ==
    LET parsed == parse_request(data)
    IN  IF ~parsed.ok
        THEN Unary(encode_response(GrpcResponse_error(StatusInternal, parsed.err)))
        ELSE
        LET request_id == IF TextXRequestId \in DOMAIN parsed.headers
                          THEN parsed.headers[TextXRequestId]
                          ELSE uuid
            WithId(r) ==
                [r EXCEPT !.headers = MapPut(@, TextXRequestId, request_id)]
            not_configured ==
                GrpcResponse_error(StatusUnimplemented,
                                   TextReflectionNotConfigured)
            is_streaming == Contains(parsed.path, TextStreamDownload)
        IN  IF is_list_services_request(parsed.path)
                  \/ is_file_containing_symbol_request(parsed.path)
            THEN IF has_fds THEN Unary(encode_response(WithId(reflected)))
                 ELSE Unary(encode_response(WithId(not_configured)))
            ELSE IF is_streaming /\ StartsWith(request_id, TextStreamPrefix)
            THEN encode_streaming_response(request_id, WithId(call(outcome)))
            ELSE Unary(encode_response(WithId(call(outcome))))

\* ------------------ the DataReceived arm with its payloads (main.rs)
\* What a browser may put on the data channel. An envelope as the tests of
\* grpc_handler.rs build it: both lengths, the path, the headers' JSON text
\* and the frames.
Envelope(path, headers_json, frames) ==
    BE32(Len(path)) \o path \o BE32(Len(headers_json)) \o headers_json
        \o frames

PathA == <<97>>
PathStream == <<47, 83, 47, 83, 116, 114, 101, 97, 109, 68, 111, 119, 110, 108, 111, 97, 100>>
GoodPaths ==
    {<<>>, PathA, PathStream, TextListServicesV1,
     TextFileContainingSymbolV1Alpha}
\* a lone continuation byte, a lead byte without its continuation, a
\* surrogate
BadUtf8 == {<<128>>, <<97, 195>>, <<237, 160, 128>>}

HeadersEmpty == <<123, 125>>
HeadersKV == <<123, 34, 107, 34, 58, 34, 118, 34, 125>>
HeadersStreamId == <<123, 34, 120, 45, 114, 101, 113, 117, 101, 115, 116, 45, 105, 100, 34, 58, 34, 115, 116, 114, 101, 97, 109, 45, 49, 34, 125>>
GoodHeaders == {HeadersEmpty, HeadersKV, HeadersStreamId}
\* texts that are no JSON object of strings: nothing, an array, a number as
\* value, null as value, a nested object, an open object, a bare null,
\* text after the object
NotFlatHeaders ==
    {<<>>, <<91, 93>>, <<123, 34, 107, 34, 58, 49, 125>>, <<123, 34, 107, 34, 58, 110, 117, 108, 108, 125>>, <<123, 34, 107, 34, 58, 123, 34, 97, 34, 58, 34, 98, 34, 125, 125>>, <<123, 34, 107, 34, 58, 34, 118, 34>>, <<110, 117, 108, 108>>, <<123, 34, 107, 34, 58, 34, 118, 34, 125, 120>>}
\* the quotes and braces of an object around a byte that is no UTF-8
BadUtf8Headers == {<<123, 34, 255, 34, 58, 34, 34, 125>>, <<123, 125, 128>>}

GoodFrames == {<<>>, encode_grpc_data_frame(<<7>>)}

\* lengths that point past the end of the data
LongLengths(n) == {n + 1, 16777216, 2130706432}

Prefixes(d, upto) == {SubSeq(d, 1, n) : n \in 0..upto}

\* the requests of each kind, each with the kind it was built as
WellFormedRequests ==
    {[class |-> "well_formed", data |-> Envelope(p, h, <<>>)] :
        p \in GoodPaths, h \in GoodHeaders}
      \cup {[class |-> "well_formed",
             data |-> Envelope(PathA, HeadersEmpty, f)] : f \in GoodFrames}
TruncatedRequests ==
    {[class |-> "too_short", data |-> d] :
        d \in UNION {Prefixes(Envelope(PathA, h, <<>>), 8 + Len(h)) :
                        h \in {HeadersEmpty, HeadersKV}}}
LongPathRequests ==
    {[class |-> "length_exceeds",
      data |-> BE32(n) \o PathA \o BE32(2) \o HeadersEmpty] :
        n \in LongLengths(7)}
LongHeadersRequests ==
    {[class |-> "length_exceeds",
      data |-> BE32(1) \o PathA \o BE32(n) \o HeadersEmpty] :
        n \in LongLengths(2)}
BadPathRequests ==
    {[class |-> "path_not_utf8", data |-> Envelope(p, HeadersEmpty, <<>>)] :
        p \in BadUtf8}
BadHeadersUtf8Requests ==
    {[class |-> "headers_not_utf8", data |-> Envelope(PathA, h, <<>>)] :
        h \in BadUtf8Headers}
NotFlatRequests ==
    {[class |-> "headers_not_flat", data |-> Envelope(p, h, <<>>)] :
        p \in {PathA, PathStream}, h \in NotFlatHeaders}
\* well-formed requests with other frames than one data frame: two data
\* frames, a trailer frame alone, a trailer frame before and after a data
\* frame
FrameLists ==
    {encode_grpc_data_frame(<<7>>) \o encode_grpc_data_frame(<<8, 9>>),
     encode_trailer_frame(StatusOk, <<>>),
     encode_trailer_frame(StatusOk, <<>>) \o encode_grpc_data_frame(<<7>>),
     encode_grpc_data_frame(<<7>>) \o encode_trailer_frame(StatusOk, <<>>)}
FramedRequests ==
    {[class |-> "well_formed", data |-> Envelope(PathA, HeadersEmpty, f)] :
        f \in FrameLists}
Requests ==
    WellFormedRequests \cup FramedRequests \cup TruncatedRequests
        \cup LongPathRequests
        \cup LongHeadersRequests \cup BadPathRequests
        \cup BadHeadersUtf8Requests \cup NotFlatRequests

\* what the service may answer to service.call: a response with headers,
\* body and trailers, a response whose body cannot be collected, or an
\* error
HttpResponse(headers, body, trailers) ==
    [ok |-> TRUE, collect_ok |-> TRUE, headers |-> headers, body |-> body,
     trailers |-> trailers]
NoOutcome ==
    [ok |-> FALSE, collect_ok |-> FALSE, headers |-> <<>>, body |-> <<>>,
     trailers |-> <<>>]
StatusMap(code, message) ==
    IF message = <<>> THEN MapPut(<<>>, KeyGrpcStatus, code)
    ELSE MapPut(MapPut(<<>>, KeyGrpcStatus, code), KeyGrpcMessage, message[1])
TextNotFound == <<110, 111, 116, 32, 102, 111, 117, 110, 100>>
\* one message and the status OK in the trailers; a status in the headers
\* of a response without body; two messages and OK in the trailers; one
\* message and then a failure in the trailers
ServiceResponses ==
    {HttpResponse(<<>>, encode_grpc_data_frame(<<1>>), StatusMap(<<48>>, <<>>)),
     HttpResponse(StatusMap(<<53>>, <<TextNotFound>>), <<>>, <<>>),
     HttpResponse(<<>>, encode_grpc_data_frame(<<1>>)
                            \o encode_grpc_data_frame(<<2>>),
                  StatusMap(<<48>>, <<>>)),
     HttpResponse(<<>>, encode_grpc_data_frame(<<1>>),
                  StatusMap(<<49, 51>>, <<TextNotFound>>))}
ServiceOutcomes ==
    ServiceResponses
        \cup {[NoOutcome EXCEPT !.ok = TRUE], NoOutcome}

\* what handle_list_services and handle_file_containing_symbol may answer
StatusInvalidArgument == 3
TextSymbolRequired == <<115, 121, 109, 98, 111, 108, 32, 105, 115, 32, 114, 101, 113, 117, 105, 114, 101, 100>>
ReflectionResponses ==
    {GrpcResponse_ok(<<1>>),
     GrpcResponse_error(StatusInvalidArgument, TextSymbolRequired)}
NoReflected == GrpcResponse_ok(<<>>)

\* who serves a request: nobody (it does not parse), a reflection handler
\* or the service behind the bridge
Route(data) ==
    LET parsed == parse_request(data)
    IN  IF ~parsed.ok THEN "none"
        ELSE IF is_list_services_request(parsed.path)
                  \/ is_file_containing_symbol_request(parsed.path)
        THEN "reflection"
        ELSE "bridge"

\* the answers the processing of a request may meet: only those of whoever
\* serves it. fds tells whether the caller passed a file descriptor set
\* (the pumps of main.rs do, process_request_with_service does not); without
\* one no reflection handler runs
Served(route) ==
    {[reflected |-> r, outcome |-> o, fds |-> TRUE] :
        r \in IF route = "reflection" THEN ReflectionResponses
              ELSE {NoReflected},
        o \in IF route = "bridge" THEN ServiceOutcomes ELSE {NoOutcome}}
      \cup (IF route = "reflection"
            THEN {[reflected |-> NoReflected, outcome |-> NoOutcome,
                   fds |-> FALSE]}
            ELSE {})
NotServed == [reflected |-> NoReflected, outcome |-> NoOutcome, fds |-> TRUE]

\* the arm before the first message: waiting in event_rx.recv(), the data
\* channel open, nothing answered
DataArmNew ==
    [pc |-> "recv", open |-> TRUE, request |-> [class |-> "none", data |-> <<>>],
     served |-> NotServed, result |-> Unary(<<>>), sent |-> <<>>,
     log |-> <<>>]

\* the data channel's on_message and event_rx.recv(): a message of the
\* browser reaches the arm
DataArmRecv(request) ==
    /\ data_arm.pc = "recv"
    /\ data_arm.open
    /\ Len(data_arm.log) < MaxMessages
    /\ data_arm' = [data_arm EXCEPT !.pc = "process", !.request = request,
                                    !.served = NotServed, !.sent = <<>>]
    /\ UNCHANGED <<jobVars, sigVars, peerVars_but_data_arm>>

\* process_request_with_reflection(&data, &grpc_bridge, fds).await
DataArmProcess ==
    /\ data_arm.pc = "process"
    /\ LET route == Route(data_arm.request.data)
       IN  \E served \in Served(route) : \E uuid \in Uuids :
             data_arm' = [data_arm EXCEPT
                 !.pc = "send",
                 !.served = served,
                 !.result = process_request_with_reflection(
                                data_arm.request.data, served.reflected,
                                served.outcome, uuid, served.fds)]
    /\ UNCHANGED <<jobVars, sigVars, peerVars_but_data_arm>>

\* the request is done: back to event_rx.recv()
DataArmDone(arm) ==
    [arm EXCEPT !.pc = "recv",
                !.log = @ \o <<[request |-> arm.request, served |-> arm.served,
                              sent |-> arm.sent]>>]

\* peer_clone.send(..).await of the next message of the result. A send on
\* a closed channel fails: the Unary arm reports it, the Streaming arm
\* leaves its loop
DataArmSend ==
    /\ data_arm.pc = "send"
    /\ LET next == Len(data_arm.sent) + 1
           after == IF data_arm.open
                    THEN [data_arm EXCEPT
                              !.sent = @ \o <<data_arm.result.messages[next]>>]
                    ELSE data_arm
       IN  data_arm' =
               IF next > Len(data_arm.result.messages) THEN DataArmDone(data_arm)
               ELSE IF ~data_arm.open \/ next = Len(data_arm.result.messages)
               THEN DataArmDone(after)
               ELSE after
    /\ UNCHANGED <<jobVars, sigVars, peerVars_but_data_arm>>

\* the browser or the network closes the data channel
DataChannelClose ==
    /\ data_arm.open
    /\ data_arm' = [data_arm EXCEPT !.open = FALSE]
    /\ UNCHANGED <<jobVars, sigVars, peerVars_but_data_arm>>

DataArm ==
    \/ \E request \in Requests : DataArmRecv(request)
    \/ DataArmProcess
    \/ DataArmSend
    \/ DataChannelClose

\* ------------------------------------------------------- P2P orchestrator
\* gateway/src/main.rs (run_p2p_client, run_p2p_service), gateway/src/p2p/peer.rs

\* tasks that take the locks
OfferTask == <<"on_offer", 0>>
PumpTask(p) == <<"pump", p>>
NoTask == <<>>

\* tokio::sync::RwLock: read() is granted while no writer holds the lock,
\* write() while nobody holds it
CanRead(l) == l.writer = NoTask
CanWrite(l) == l.writer = NoTask /\ l.readers = {}

\* no on_offer call in flight; a call keeps the requestId it was given and
\* the connection whose read task awaits it (0: invoked by the environment)
NoOffer == [pc |-> "idle", peer |-> 0, request_id |-> None, reader |-> 0]

InitPeerMap ==
    /\ peers = {}
    /\ peer_counter = 0
    /\ state_lock = [writer |-> NoTask, readers |-> {}]
    /\ offer = NoOffer
    /\ pump = [p \in PeerIds |-> "none"]
    /\ conn = [p \in PeerIds |-> "None"]
    /\ closing = {}
    /\ emitted = [p \in PeerIds |-> <<>>]
    /\ received = [p \in PeerIds |-> 0]
    /\ rx_alive = {}
    /\ cleaned = {}
    /\ peers_to_close = {}
    /\ data_arm = DataArmNew
    /\ handling = [p \in PeerIds |-> 0]
    /\ sent = [p \in PeerIds |-> <<>>]
    /\ data_channel = {}
    /\ bridge_mutex = NoTask
    /\ ice_candidates = [p \in PeerIds |-> 0]
    /\ signaled = [p \in PeerIds |-> [answer |-> FALSE, ice |-> 0]]

\* ------------------------------------------------------ signaling client
\* gateway/src/p2p/signaling.rs and its wiring in gateway/src/main.rs

ReconnectTask == <<"reconnect", 0>>
MainTask == <<"main", 0>>
ReadTask(c) == <<"read", c>>

\* AuthenticatedSignalingClient::new, behind a free lock, nothing connected
InitClient ==
    /\ client_lock = [writer |-> NoTask, readers |-> {}]
    /\ client_state = [is_connected |-> FALSE, is_authenticated |-> FALSE]
    /\ send_tx = 0
    /\ connections = 0
    /\ connector = "idle"
    /\ read_task = [c \in ConnIds |-> "none"]
    /\ write_task = [c \in ConnIds |-> "none"]
    /\ inbox = [c \in ConnIds |-> <<>>]
    /\ read_pos = [c \in ConnIds |-> 0]
    /\ handed = [c \in ConnIds |-> <<>>]
    /\ written = [c \in ConnIds |-> 0]
    /\ callbacks = {}
    /\ close_returned = FALSE

\* run_p2p_client / run_p2p_service up to the spawn of the reconnect task
InitWiring ==
    /\ InitClient
    /\ reconnect = "start"
    /\ main = "sleep"

\* the program runs one of its two wirings
InitPeers ==
    /\ wiring \in {"client", "service"}
    /\ InitPeerMap

Init == InitJobs /\ InitPeers /\ InitWiring

\* a client object used directly, with an event handler that only returns
InitSignalingApi ==
    /\ InitJobs
    /\ wiring = "none"
    /\ InitPeerMap
    /\ InitClient
    /\ reconnect = "none"
    /\ main = "none"

\* ----------------------------------------------------- scraper service RPCs
\* gateway/src/grpc/scraper_service.rs

\* the caller id of the Health RPC in the lock's line of waiters; a job's
\* background task waits under its job ID
HealthCaller == 0

\* job_queue.write().await or job_queue.read().await returns at once:
\* tokio's RwLock serves its callers in the order they asked, so nobody
\* passes a caller that waits, and a writer needs every read guard dropped
lock_granted(who, write) ==
    /\ IF queue_lock.waiting = <<>> THEN TRUE
       ELSE Head(queue_lock.waiting) = who
    /\ write => queue_lock.readers = 0

\* the caller leaves the line of waiters when the lock is granted
lock_taken(l, who) ==
    [l EXCEPT !.waiting = IF @ # <<>> /\ Head(@) = who THEN Tail(@) ELSE @]

\* the callers in the line of waiters
lock_waiters(l) == {l.waiting[i] : i \in 1..Len(l.waiting)}

\* a lock section of the background task: granted, used and released
\* before the task's next await
TaskLockSection(j, write) ==
    /\ lock_granted(j, write)
    /\ queue_lock' = lock_taken(queue_lock, j)
    /\ UNCHANGED health

\* the write-lock section of scrape_multiple: create_job, set_session_folder
ScrapeMultipleCreate(q, job_id, accounts) ==
    LET q1 == create_job(q, job_id, accounts)
    IN  IF job_id \in DOMAIN q1.jobs
        THEN [q1 EXCEPT !.jobs[job_id].session_folder = "session"]
        ELSE q1

\* tokio::spawn(process_job_in_background(job_queue, job_id, session_folder))
SpawnTask(ts, job_id) ==
    [k \in (DOMAIN ts) \cup {job_id} |->
        IF k = job_id
        THEN [pc |-> "start", accounts |-> <<>>, idx |-> 1, result |-> None,
              outcomes |-> <<>>]
        ELSE ts[k]]

\* a request check that lets every list through
accounts_never_empty(accounts) == FALSE

\* req.accounts.is_empty()
accounts_is_empty(accounts) == Len(accounts) = 0

\* EtcScraper::scrape_multiple; dir_ok is the outcome of create_dir_all
scrape_multiple(accounts, dir_ok) ==
    IF accounts_is_empty(accounts)
    THEN /\ response' = [code |-> "InvalidArgument", total_count |-> 0]
         /\ UNCHANGED <<job_queue, next_uuid, tasks, returned, lockVars, peerVars, sigVars>>
    ELSE IF ~dir_ok
    THEN /\ response' = [code |-> "Internal", total_count |-> 0]
         /\ UNCHANGED <<job_queue, next_uuid, tasks, returned, lockVars, peerVars, sigVars>>
    ELSE /\ next_uuid < MaxJobs
         /\ queue_lock = QueueLockFree
         /\ next_uuid' = next_uuid + 1
         /\ job_queue' = ScrapeMultipleCreate(job_queue, next_uuid + 1, accounts)
         /\ tasks' = SpawnTask(tasks, next_uuid + 1)
         /\ response' = [code |-> "Ok", total_count |-> Len(accounts)]
         /\ UNCHANGED <<returned, lockVars, peerVars, sigVars>>

ScrapeMultiple ==
    \E accounts \in SeqsUpTo(Users, MaxAccounts), dir_ok \in BOOLEAN :
        scrape_multiple(accounts, dir_ok)

\* process_job_in_background, first write-lock section:
\* set_current_job and JobState::start
TaskStartQueue(q, job_id) ==
    LET q1 == set_current_job(q, job_id)
    IN  IF job_id \in DOMAIN q1.jobs
        THEN [q1 EXCEPT !.jobs[job_id] = JobStart(@)]
        ELSE q1

TaskStart(j) ==
    /\ j \in DOMAIN tasks
    /\ tasks[j].pc = "start"
    /\ TaskLockSection(j, TRUE)
    /\ job_queue' = TaskStartQueue(job_queue, j)
    /\ tasks' = [tasks EXCEPT ![j].pc = "load"]
    /\ UNCHANGED <<next_uuid, response, returned, peerVars, sigVars>>

\* read-lock section: copy account_order (every ID has a password, so the
\* filter_map keeps every entry); return when the job is gone
TaskLoad(j) ==
    /\ j \in DOMAIN tasks
    /\ tasks[j].pc = "load"
    /\ TaskLockSection(j, FALSE)
    /\ IF j \in DOMAIN job_queue.jobs
       THEN tasks' = [tasks EXCEPT
                ![j].accounts = job_queue.jobs[j].account_order,
                ![j].pc = IF job_queue.jobs[j].account_order = <<>>
                          THEN "finish" ELSE "set_running"]
       ELSE tasks' = [tasks EXCEPT ![j].pc = "returned"]
    /\ UNCHANGED <<job_queue, next_uuid, response, returned, peerVars, sigVars>>

\* loop body, write-lock section before the scrape
TaskSetRunningQueue(q, job_id, idx, user_id) ==
    IF job_id \in DOMAIN q.jobs
    THEN LET job  == q.jobs[job_id]
             job1 == [job EXCEPT !.current_account_index = idx - 1]
             job2 == IF user_id \in DOMAIN job1.accounts
                     THEN [job1 EXCEPT !.accounts[user_id] = AccountSetRunning(@)]
                     ELSE job1
         IN  [q EXCEPT !.jobs[job_id] = job2]
    ELSE q

TaskSetRunning(j) ==
    /\ j \in DOMAIN tasks
    /\ tasks[j].pc = "set_running"
    /\ TaskLockSection(j, TRUE)
    /\ job_queue' = TaskSetRunningQueue(job_queue, j, tasks[j].idx,
                                        tasks[j].accounts[tasks[j].idx])
    /\ tasks' = [tasks EXCEPT ![j].pc = "scraping"]
    /\ UNCHANGED <<next_uuid, response, returned, peerVars, sigVars>>

\* scraper.call(internal_req).await returns Ok or Err; no lock is held
ScraperReturn(j) ==
    /\ j \in DOMAIN tasks
    /\ tasks[j].pc = "scraping"
    /\ \E r \in {"Ok", "Err"} :
          tasks' = [tasks EXCEPT ![j].result = r, ![j].pc = "record",
                                 ![j].outcomes = Append(@, r)]
    /\ UNCHANGED <<job_queue, next_uuid, response, returned, lockVars, peerVars, sigVars>>

\* loop body, write-lock section after the scrape
TaskRecordQueue(q, job_id, user_id, result) ==
    IF job_id \in DOMAIN q.jobs
    THEN LET job  == q.jobs[job_id]
             job1 == IF user_id \in DOMAIN job.accounts
                     THEN IF result = "Ok"
                          THEN [job EXCEPT !.accounts[user_id] = AccountSetCompleted(@)]
                          ELSE [job EXCEPT !.accounts[user_id] = AccountSetFailed(@),
                                           !.last_error = "err"]
                     ELSE job
         IN  [q EXCEPT !.jobs[job_id] = update_overall_status(job1)]
    ELSE q

\* a loop that gives up at the first failed account
TaskRecordBreakOnError(j) ==
    /\ j \in DOMAIN tasks
    /\ tasks[j].pc = "record"
    /\ TaskLockSection(j, TRUE)
    /\ job_queue' = TaskRecordQueue(job_queue, j, tasks[j].accounts[tasks[j].idx],
                                    tasks[j].result)
    /\ tasks' = [tasks EXCEPT
            ![j].result = None,
            ![j].idx = @ + 1,
            ![j].pc = IF tasks[j].idx < Len(tasks[j].accounts)
                         /\ tasks[j].result = "Ok"
                      THEN "set_running" ELSE "finish"]
    /\ UNCHANGED <<next_uuid, response, returned, peerVars, sigVars>>

TaskRecord(j) ==
    /\ j \in DOMAIN tasks
    /\ tasks[j].pc = "record"
    /\ TaskLockSection(j, TRUE)
    /\ job_queue' = TaskRecordQueue(job_queue, j, tasks[j].accounts[tasks[j].idx],
                                    tasks[j].result)
    /\ tasks' = [tasks EXCEPT
            ![j].result = None,
            ![j].idx = @ + 1,
            ![j].pc = IF tasks[j].idx < Len(tasks[j].accounts)
                      THEN "set_running" ELSE "finish"]
    /\ UNCHANGED <<next_uuid, response, returned, peerVars, sigVars>>

\* the last section without its clear_current_job: the slot stays occupied
TaskFinishQueueKeepSlot(q, job_id) ==
    IF job_id \in DOMAIN q.jobs
    THEN [q EXCEPT !.jobs[job_id] = update_overall_status(@)]
    ELSE q

\* last write-lock section: update_overall_status, clear_current_job
TaskFinishQueue(q, job_id) ==
    clear_current_job(
        IF job_id \in DOMAIN q.jobs
        THEN [q EXCEPT !.jobs[job_id] = update_overall_status(@)]
        ELSE q)

TaskFinish(j) ==
    /\ j \in DOMAIN tasks
    /\ tasks[j].pc = "finish"
    /\ TaskLockSection(j, TRUE)
    /\ job_queue' = TaskFinishQueue(job_queue, j)
    /\ tasks' = [tasks EXCEPT ![j].pc = "done"]
    /\ UNCHANGED <<next_uuid, response, returned, peerVars, sigVars>>

TaskStep(j) ==
    \/ TaskStart(j)
    \/ TaskLoad(j)
    \/ TaskSetRunning(j)
    \/ ScraperReturn(j)
    \/ TaskRecord(j)
    \/ TaskFinish(j)

Next ==
    \/ ScrapeMultiple
    \/ \E j \in JobIds : TaskStep(j)

\* the scraper service as the process runs it
Spec == Init /\ [][Next]_vars

\* every spawned task is scheduled and every scraper call returns
SpecFair == Init /\ [][Next]_vars /\ \A j \in JobIds : WF_vars(TaskStep(j))

\* ------------------------------------------------ Health during the jobs
\* gateway/src/grpc/scraper_service.rs, EtcScraperService::health

\* the positions of a background task that open a lock section
LockSections == {"start", "load", "set_running", "record", "finish"}

\* the task's write().await (read().await at "load") does not return yet:
\* the task joins the line of waiters
TaskAwaitLock(j) ==
    /\ j \in DOMAIN tasks
    /\ tasks[j].pc \in LockSections
    /\ j \notin lock_waiters(queue_lock)
    /\ ~lock_granted(j, tasks[j].pc # "load")
    /\ queue_lock' = [queue_lock EXCEPT !.waiting = Append(@, j)]
    /\ UNCHANGED <<job_queue, next_uuid, tasks, response, returned, health,
                   peerVars, sigVars>>

\* a Health RPC arrives
HealthIssue ==
    /\ health.pc \in {"idle", "returned"}
    /\ health' = [pc |-> "first_read",
                  during_scrape |-> \E j \in DOMAIN tasks :
                                       tasks[j].pc = "scraping"]
    /\ UNCHANGED <<job_queue, next_uuid, tasks, response, returned, queue_lock,
                   peerVars, sigVars>>

\* let queue = self.job_queue.read().await: the guard lives to the end of
\* the function; current_job is built from it
HealthFirstRead ==
    /\ health.pc = "first_read"
    /\ lock_granted(HealthCaller, FALSE)
    /\ queue_lock' = [lock_taken(queue_lock, HealthCaller) EXCEPT
                         !.readers = @ + 1]
    /\ health' = [health EXCEPT !.pc = "second_read"]
    /\ UNCHANGED <<job_queue, next_uuid, tasks, response, returned,
                   peerVars, sigVars>>

\* the block of last_session_folder takes a second read guard while the
\* first is held and drops it at the block's end; then the response is
\* built and the function returns, which drops the first guard
HealthSecondRead ==
    /\ health.pc = "second_read"
    /\ lock_granted(HealthCaller, FALSE)
    /\ queue_lock' = [lock_taken(queue_lock, HealthCaller) EXCEPT
                         !.readers = @ - 1]
    /\ health' = [health EXCEPT !.pc = "returned"]
    /\ UNCHANGED <<job_queue, next_uuid, tasks, response, returned,
                   peerVars, sigVars>>

\* a read().await of Health does not return yet
HealthAwaitLock ==
    /\ health.pc \in {"first_read", "second_read"}
    /\ HealthCaller \notin lock_waiters(queue_lock)
    /\ ~lock_granted(HealthCaller, FALSE)
    /\ queue_lock' = [queue_lock EXCEPT !.waiting = Append(@, HealthCaller)]
    /\ UNCHANGED <<job_queue, next_uuid, tasks, response, returned, health,
                   peerVars, sigVars>>

HealthStep ==
    \/ HealthFirstRead
    \/ HealthSecondRead
    \/ HealthAwaitLock

HealthTaskStep(j) ==
    \/ TaskStep(j)
    \/ TaskAwaitLock(j)

\* the first job is submitted; Health is followed against this one job
FirstScrapeMultiple ==
    /\ next_uuid = 0
    /\ ScrapeMultiple

NextHealth ==
    \/ FirstScrapeMultiple
    \/ \E j \in JobIds : HealthTaskStep(j)
    \/ HealthIssue
    \/ HealthStep

\* the scraper service with Health RPCs arriving while jobs run
SpecHealth == Init /\ [][NextHealth]_vars

\* every task and every Health call is scheduled whenever it can go on
SpecHealthFair ==
    /\ Init /\ [][NextHealth]_vars
    /\ \A j \in JobIds : WF_vars(HealthTaskStep(j))
    /\ WF_vars(HealthStep)

\* ------------------------------------------------ peer events (peer.rs)

\* states the underlying connection can move to; "Closed" only after the
\* connection was told to close
ConnNext(p) ==
    IF conn[p] = "New" THEN {"Connected", "Failed"}
    ELSE IF conn[p] = "Connected" THEN {"Disconnected"}
    ELSE IF conn[p] = "Disconnected" THEN {"Connected", "Failed"}
    ELSE {}

DownStates == {"Disconnected", "Failed", "Closed"}

\* event_tx.send(e).await: the event is queued while the receiver is alive,
\* the send error is ignored once it has been dropped
\* (the log of a peer holds up to MaxEvents connection events and
\* MaxRequests requests)
CountOfEvent(es, e) == Cardinality({i \in 1..Len(es) : es[i] = e})
CanEmit(p, n) ==
    \/ p \notin rx_alive
    \/ Len(emitted[p]) - CountOfEvent(emitted[p], "DataReceived") + n
           <= MaxEvents
CanEmitData(p) ==
    \/ p \notin rx_alive
    \/ CountOfEvent(emitted[p], "DataReceived") < MaxRequests
Emit(p, es) ==
    emitted' = [emitted EXCEPT ![p] = IF p \in rx_alive THEN @ \o es ELSE @]

\* the event the state-change handler sends for the new state
StateChangeEvents(s) ==
    IF s = "Connected" THEN <<"Connected">>
    ELSE IF s \in DownStates THEN <<"Disconnected">>
    ELSE <<>>

\* the connection's state-change callback
on_peer_connection_state_change(p, s) ==
    /\ conn[p] # "None"
    /\ s \in ConnNext(p) \cup (IF p \in closing /\ conn[p] # "Closed"
                                THEN {"Closed"} ELSE {})
    /\ CanEmit(p, Len(StateChangeEvents(s)))
    /\ conn' = [conn EXCEPT ![p] = s]
    /\ Emit(p, StateChangeEvents(s))
    /\ UNCHANGED <<jobVars, sigVars, wiring, ice_candidates, signaled, data_arm, peers, peer_counter, state_lock,
                   offer, pump, closing, received, rx_alive, cleaned, peers_to_close, handling, sent,
                   bridge_mutex, data_channel>>

\* on_data_channel stores the channel; its on_open callback sends Connected
on_open(p) ==
    /\ conn[p] = "Connected"
    /\ p \notin data_channel
    /\ CanEmit(p, 1)
    /\ data_channel' = data_channel \cup {p}
    /\ Emit(p, <<"Connected">>)
    /\ UNCHANGED <<jobVars, sigVars, wiring, ice_candidates, signaled, data_arm, peers, peer_counter, state_lock,
                   offer, pump, conn, closing, received, rx_alive, cleaned, peers_to_close, handling, sent,
                   bridge_mutex>>

\* the data channel's on_message callback
on_message(p) ==
    /\ conn[p] = "Connected"
    /\ p \in data_channel
    /\ CanEmitData(p)
    /\ Emit(p, <<"DataReceived">>)
    /\ UNCHANGED <<jobVars, sigVars, wiring, ice_candidates, signaled, data_arm, peers, peer_counter, state_lock,
                   offer, pump, conn, closing, received, rx_alive, cleaned, peers_to_close, handling, sent,
                   bridge_mutex, data_channel>>

\* the connection's on_ice_candidate callback: the candidate is pushed to
\* ice_candidates and sent as an IceCandidate event
on_ice_candidate(p) ==
    /\ conn[p] \in {"New", "Connected"}
    /\ ice_candidates[p] < MaxEvents
    /\ CanEmit(p, 1)
    /\ ice_candidates' = [ice_candidates EXCEPT ![p] = @ + 1]
    /\ Emit(p, <<"IceCandidate">>)
    /\ UNCHANGED <<jobVars, sigVars, wiring, signaled, data_arm, peers, peer_counter, state_lock,
                   offer, pump, conn, closing, received, rx_alive, cleaned, peers_to_close, handling, sent,
                   bridge_mutex, data_channel>>

\* ----------------------------- what the handlers send (signaling.rs)

\* WSMessage: the type and the optional requestId (the payload is left out)
WSMessage(msg_type, request_id) ==
    [msg_type |-> msg_type, request_id |-> request_id]

\* send_message: the message goes to the channel send_tx feeds; Err when
\* send_tx is None or the channel's receiver (the write task) is gone
CanSend == send_tx # 0 /\ write_task[send_tx] = "running"
send_message(h, m) ==
    IF CanSend THEN [h EXCEPT ![send_tx] = Append(@, m)] ELSE h

\* send_answer with a requestId that is always absent
send_answer_without_request_id(h, request_id) ==
    send_message(h, WSMessage("answer", None))

\* send_answer: an answer message with the requestId it was given
send_answer(h, request_id) ==
    send_message(h, WSMessage("answer", request_id))

\* ------------------------------------------------ on_offer (main.rs)

\* next_peer_id under the write lock, P2PPeer::new, setup_handlers,
\* setup_data_channel_handler, subscribe and the spawn of the event pump
on_offer_new(new_ok, request_id, reader) ==
    /\ offer.pc = "idle"
    /\ peer_counter < MaxPeers
    /\ CanWrite(state_lock)
    /\ peer_counter' = peer_counter + 1
    /\ IF new_ok
       THEN /\ conn' = [conn EXCEPT ![peer_counter'] = "New"]
            /\ rx_alive' = rx_alive \cup {peer_counter'}
            /\ pump' = [pump EXCEPT ![peer_counter'] = "recv"]
            /\ offer' = [pc |-> "create_answer", peer |-> peer_counter',
                         request_id |-> request_id, reader |-> reader]
       ELSE UNCHANGED <<conn, rx_alive, pump, offer>>
    /\ UNCHANGED <<jobVars, wiring, ice_candidates, signaled, data_arm, peers, state_lock, closing,
                   emitted, received, cleaned, peers_to_close, handling, sent, bridge_mutex, data_channel>>

\* on_offer invoked by the environment, for an offer without requestId
OnOfferStart(new_ok) ==
    /\ on_offer_new(new_ok, None, 0)
    /\ UNCHANGED sigVars

\* the handler returns: the read task that awaited it goes on with its loop
on_offer_returns ==
    IF offer.reader = 0 THEN read_task
    ELSE [read_task EXCEPT ![offer.reader] = "recv"]

\* peer.create_answer(sdp).await; on Err the handler only logs
OnOfferCreateAnswer(ok) ==
    /\ offer.pc = "create_answer"
    /\ offer' = IF ok THEN [offer EXCEPT !.pc = "send_answer"] ELSE NoOffer
    /\ read_task' = IF ok THEN read_task ELSE on_offer_returns
    /\ UNCHANGED <<jobVars, sigVars_but_read_task, wiring, ice_candidates, signaled, data_arm, peers, peer_counter, state_lock,
                   pump, conn, closing, emitted, received, rx_alive, cleaned, peers_to_close, handling, sent,
                   bridge_mutex, data_channel>>

\* state.read().await and client.read().await, then
\* client.send_answer(&answer_sdp, request_id.as_deref()); on Err the ICE
\* flush is skipped
OnOfferSendAnswer(ok) ==
    /\ offer.pc = "send_answer"
    /\ CanRead(state_lock)
    /\ CanRead(client_lock)
    /\ state_lock' = [state_lock EXCEPT !.readers = @ \cup {OfferTask}]
    /\ client_lock' = [client_lock EXCEPT !.readers = @ \cup {OfferTask}]
    /\ offer' = [offer EXCEPT !.pc = IF ok THEN "sleep" ELSE "drop_read"]
    /\ handed' = IF ok THEN send_answer(handed, offer.request_id) ELSE handed
    /\ signaled' = [signaled EXCEPT ![offer.peer].answer = ok]
    /\ UNCHANGED <<jobVars, wiring, ice_candidates, data_arm, peers, peer_counter, pump, conn, closing,
                   emitted, received, rx_alive, cleaned, peers_to_close, handling, sent, data_channel,
                   bridge_mutex, client_state, send_tx, connections,
                   connector, reconnect, main, read_task, write_task, inbox,
                   read_pos, written, callbacks, close_returned>>

\* send_ice, once for each of n candidates: an ice message without requestId
RECURSIVE send_ice(_, _)
send_ice(h, n) ==
    IF n = 0 THEN h
    ELSE send_ice(send_message(h, WSMessage("ice", None)), n - 1)

\* the 500 ms sleep and the flush of the ICE candidates gathered by then
\* (get_ice_candidates, send_ice for each), with the read guard still held
OnOfferFlushIce ==
    /\ offer.pc = "sleep"
    /\ offer' = [offer EXCEPT !.pc = "drop_read"]
    /\ signaled' = [signaled EXCEPT ![offer.peer].ice = ice_candidates[offer.peer]]
    /\ handed' = send_ice(handed, ice_candidates[offer.peer])
    /\ UNCHANGED <<jobVars, sigVars_but_handed, wiring, ice_candidates, data_arm, peers, peer_counter, state_lock,
                   pump, conn, closing, emitted, received, rx_alive, cleaned, peers_to_close, handling, sent,
                   bridge_mutex, data_channel>>

\* the client guard goes out of scope, then drop(state)
OnOfferDropRead ==
    /\ offer.pc = "drop_read"
    /\ state_lock' = [state_lock EXCEPT !.readers = @ \ {OfferTask}]
    /\ client_lock' = [client_lock EXCEPT !.readers = @ \ {OfferTask}]
    /\ offer' = [offer EXCEPT !.pc = "insert"]
    /\ UNCHANGED <<jobVars, wiring, ice_candidates, signaled, data_arm, peers, peer_counter, pump, conn, closing,
                   emitted, received, rx_alive, cleaned, peers_to_close, handling, sent, data_channel,
                   bridge_mutex, client_state, send_tx, connections,
                   connector, reconnect, main, read_task, write_task, inbox,
                   read_pos, handed, written, callbacks, close_returned>>

\* state.write().await; state.peers.insert(peer_id, peer)
OnOfferInsert ==
    /\ offer.pc = "insert"
    /\ CanWrite(state_lock)
    /\ peers' = peers \cup {offer.peer}
    /\ offer' = NoOffer
    /\ read_task' = on_offer_returns
    /\ UNCHANGED <<jobVars, sigVars_but_read_task, wiring, ice_candidates, signaled, data_arm, peer_counter, state_lock, pump,
                   conn, closing, emitted, received, rx_alive, cleaned, peers_to_close, handling, sent,
                   bridge_mutex, data_channel>>

on_offer ==
    \/ \E new_ok \in BOOLEAN : OnOfferStart(new_ok)
    \/ \E ok \in BOOLEAN : OnOfferCreateAnswer(ok)
    \/ \E ok \in BOOLEAN : OnOfferSendAnswer(ok)
    \/ OnOfferFlushIce
    \/ OnOfferDropRead
    \/ OnOfferInsert

\* ------------------------------------ TonicServiceBridge (grpc_handler.rs)

\* self.service.lock().await
BridgeLock(p) ==
    /\ pump[p] = "bridge_lock"
    /\ bridge_mutex = NoTask
    /\ bridge_mutex' = PumpTask(p)
    /\ pump' = [pump EXCEPT ![p] = "bridge_call"]
    /\ UNCHANGED <<jobVars, sigVars, wiring, ice_candidates, signaled, data_arm, peers, peer_counter, state_lock,
                   offer, conn, closing, emitted, received, rx_alive, cleaned, peers_to_close, handling, sent,
                   data_channel>>

\* service.call(http_req).await under the guard; on Err call returns the
\* error response and the guard goes out of scope
BridgeServiceCall(p, ok) ==
    /\ pump[p] = "bridge_call"
    /\ IF ok
       THEN /\ pump' = [pump EXCEPT ![p] = "bridge_collect"]
            /\ UNCHANGED bridge_mutex
       ELSE /\ pump' = [pump EXCEPT ![p] = "send"]
            /\ bridge_mutex' = NoTask
    /\ UNCHANGED <<jobVars, sigVars, wiring, ice_candidates, signaled, data_arm, peers, peer_counter, state_lock,
                   offer, conn, closing, emitted, received, rx_alive, cleaned, peers_to_close, handling, sent,
                   data_channel>>

\* parse_http_response: body.collect().await, then call returns and the
\* guard taken at the lock goes out of scope
BridgeCollectBody(p) ==
    /\ pump[p] = "bridge_collect"
    /\ pump' = [pump EXCEPT ![p] = "send"]
    /\ bridge_mutex' = NoTask
    /\ UNCHANGED <<jobVars, sigVars, wiring, ice_candidates, signaled, data_arm, peers, peer_counter, state_lock,
                   offer, conn, closing, emitted, received, rx_alive, cleaned, peers_to_close, handling, sent,
                   data_channel>>

TonicServiceBridge_call(p) ==
    \/ BridgeLock(p)
    \/ \E ok \in BOOLEAN : BridgeServiceCall(p, ok)
    \/ BridgeCollectBody(p)

\* ------------------------------------------- the event pump (main.rs)

\* where the pump goes for an event; a DataReceived payload is either routed
\* to the bridge or answered without it (reflection, unparsable envelope)
PumpArm(e, to_bridge) ==
    IF e = "Connected" THEN (IF wiring = "client" THEN "connected_read"
                             ELSE "recv")
    ELSE IF e = "Disconnected" THEN "remove"
    ELSE IF e = "DataReceived" THEN (IF to_bridge THEN "bridge_lock"
                                     ELSE "send")
    ELSE "recv"

\* a receiver that hands out the newest event in the channel
RecvIndexNewest(p) == Len(emitted[p])

\* the event event_rx.recv() hands out: the oldest one not yet taken
\* (tokio mpsc channels are first in, first out)
RecvIndex(p) == received[p] + 1

\* event_rx.recv().await and the match on the event
PumpRecv(p, to_bridge) ==
    /\ pump[p] = "recv"
    /\ received[p] < Len(emitted[p])
    /\ received' = [received EXCEPT ![p] = @ + 1]
    /\ handling' = [handling EXCEPT ![p] = RecvIndex(p)]
    /\ pump' = [pump EXCEPT ![p] = PumpArm(emitted[p][RecvIndex(p)],
                                           to_bridge)]
    /\ UNCHANGED <<jobVars, sigVars, wiring, ice_candidates, signaled, data_arm, peers, peer_counter, state_lock,
                   offer, conn, closing, emitted, rx_alive, cleaned, peers_to_close,
                   sent, bridge_mutex, data_channel>>

\* Connected arm of run_p2p_client: state.read().await for the peer count
PumpConnected(p) ==
    /\ pump[p] = "connected_read"
    /\ CanRead(state_lock)
    /\ pump' = [pump EXCEPT ![p] = "recv"]
    /\ UNCHANGED <<jobVars, sigVars, wiring, ice_candidates, signaled, data_arm, peers, peer_counter, state_lock,
                   offer, conn, closing, emitted, received, rx_alive, cleaned, peers_to_close, handling, sent,
                   bridge_mutex, data_channel>>

\* Disconnected arm: state.write().await and the removal from the map.
\* run_p2p_client releases the guard before cleanup, run_p2p_service keeps
\* it; with nothing removed the arm breaks and the receiver is dropped
PumpRemove(p) ==
    /\ pump[p] = "remove"
    /\ CanWrite(state_lock)
    /\ peers' = peers \ {p}
    /\ IF p \in peers
       THEN /\ pump' = [pump EXCEPT ![p] = "cleanup"]
            /\ state_lock' = IF wiring = "service"
                             THEN [state_lock EXCEPT !.writer = PumpTask(p)]
                             ELSE state_lock
            /\ UNCHANGED rx_alive
       ELSE /\ pump' = [pump EXCEPT ![p] = "exited"]
            /\ rx_alive' = rx_alive \ {p}
            /\ UNCHANGED state_lock
    /\ UNCHANGED <<jobVars, sigVars, wiring, ice_candidates, signaled, data_arm, peer_counter, offer, conn,
                   closing, emitted, received, cleaned, peers_to_close, handling, sent, bridge_mutex,
                   data_channel>>

\* peer.cleanup() is called: the underlying connection is told to close
PumpCleanup(p) ==
    /\ pump[p] = "cleanup"
    /\ pump' = [pump EXCEPT ![p] = "cleanup_wait"]
    /\ closing' = closing \cup {p}
    /\ cleaned' = cleaned \cup {p}
    /\ UNCHANGED <<jobVars, sigVars, wiring, ice_candidates, signaled, data_arm, peers, peer_counter, state_lock,
                   offer, conn, emitted, received, rx_alive, peers_to_close, handling,
                   sent, bridge_mutex, data_channel>>

\* cleanup().await returns; break, the guards and the receiver are dropped
PumpCleanupDone(p) ==
    /\ pump[p] = "cleanup_wait"
    /\ pump' = [pump EXCEPT ![p] = "exited"]
    /\ rx_alive' = rx_alive \ {p}
    /\ state_lock' = IF state_lock.writer = PumpTask(p)
                     THEN [state_lock EXCEPT !.writer = NoTask]
                     ELSE state_lock
    /\ UNCHANGED <<jobVars, sigVars, wiring, ice_candidates, signaled, data_arm, peers, peer_counter, offer, conn,
                   closing, emitted, received, cleaned, peers_to_close, handling, sent, bridge_mutex,
                   data_channel>>

\* the match on the result: peer_clone.send(..).await of the unary response
\* or of each stream message in turn, until one send fails (break); n is the
\* number of messages that went out
PumpSend(p, n) ==
    /\ pump[p] = "send"
    /\ pump' = [pump EXCEPT ![p] = "recv"]
    /\ sent' = [sent EXCEPT ![p] = @ \o [i \in 1..n |-> handling[p]]]
    /\ UNCHANGED <<jobVars, sigVars, wiring, ice_candidates, signaled, data_arm, peers, peer_counter, state_lock,
                   offer, conn, closing, emitted, received, rx_alive, cleaned,
                   peers_to_close, handling, bridge_mutex, data_channel>>

EventPump(p) ==
    \/ \E to_bridge \in BOOLEAN : PumpRecv(p, to_bridge)
    \/ PumpConnected(p)
    \/ PumpRemove(p)
    \/ PumpCleanup(p)
    \/ PumpCleanupDone(p)
    \/ TonicServiceBridge_call(p)
    \/ \E n \in 0..MaxStream : PumpSend(p, n)

PeerCallbacks(p) ==
    \/ \E s \in {"Connected", "Disconnected", "Failed", "Closed"} :
           on_peer_connection_state_change(p, s)
    \/ on_open(p)
    \/ on_message(p)
    \/ on_ice_candidate(p)

NextPeers ==
    \/ on_offer
    \/ \E p \in PeerIds : EventPump(p)
    \/ \E p \in PeerIds : PeerCallbacks(p)

SpecPeers == Init /\ [][NextPeers]_vars

\* the handler of the first offer
FirstOffer ==
    /\ peer_counter = 0
    /\ \E new_ok \in BOOLEAN : OnOfferStart(new_ok)

\* on_offer after its first part, up to its return
OnOfferRest ==
    \/ \E ok \in BOOLEAN : OnOfferCreateAnswer(ok)
    \/ \E ok \in BOOLEAN : OnOfferSendAnswer(ok)
    \/ OnOfferFlushIce
    \/ OnOfferDropRead
    \/ OnOfferInsert

\* one offer, its peer's callbacks and its pump
NextIce ==
    \/ FirstOffer
    \/ OnOfferRest
    \/ EventPump(1)
    \/ PeerCallbacks(1)

SpecIce == Init /\ [][NextIce]_vars

\* the handler and the pump are scheduled; the callbacks come when they come
SpecIceFair ==
    /\ Init
    /\ [][NextIce]_vars
    /\ WF_vars(OnOfferRest)
    /\ WF_vars(EventPump(1))

\* P2PPeer::close, called once by a caller holding the peer: the underlying
\* connection is told to close (its state-change callback follows), then
\* close itself sends Disconnected
P2PPeer_close(p) ==
    /\ conn[p] # "None"
    /\ p \notin closing
    /\ CanEmit(p, 1)
    /\ closing' = closing \cup {p}
    /\ Emit(p, <<"Disconnected">>)
    /\ UNCHANGED <<jobVars, sigVars, wiring, ice_candidates, signaled, data_arm, peers, peer_counter, state_lock,
                   offer, pump, conn, received, rx_alive, cleaned, peers_to_close, handling, sent,
                   data_channel, bridge_mutex>>

\* a peer whose events nobody has received yet, driven by its callbacks and
\* by close
NextPeerApi ==
    \/ \E new_ok \in BOOLEAN : OnOfferStart(new_ok)
    \/ \E ok \in BOOLEAN : OnOfferCreateAnswer(ok)
    \/ \E p \in PeerIds : PeerCallbacks(p)
    \/ \E p \in PeerIds : P2PPeer_close(p)

SpecPeerApi == Init /\ [][NextPeerApi]_vars



\* -------------------------------------------------- job queue as a library
\* JobQueue and JobState are public types: these are calls a holder of the
\* queue can make besides the ones the scraper service makes

ApiSetCurrentJob(j) ==
    /\ job_queue' = set_current_job(job_queue, j)
    /\ returned' = NoCall
    /\ UNCHANGED <<next_uuid, tasks, response, lockVars, peerVars, sigVars>>

ApiStartNextJob ==
    /\ job_queue' = start_next_job(job_queue)
    /\ returned' = NoCall
    /\ UNCHANGED <<next_uuid, tasks, response, lockVars, peerVars, sigVars>>

ApiClearCurrentJob ==
    /\ job_queue' = clear_current_job(job_queue)
    /\ returned' = NoCall
    /\ UNCHANGED <<next_uuid, tasks, response, lockVars, peerVars, sigVars>>

ApiMarkStarted(j) ==
    /\ job_queue' = mark_started(job_queue, j)
    /\ returned' = NoCall
    /\ UNCHANGED <<next_uuid, tasks, response, lockVars, peerVars, sigVars>>

\* get_job_mut(j) then JobState::start
ApiJobStart(j) ==
    /\ j \in DOMAIN job_queue.jobs
    /\ job_queue' = [job_queue EXCEPT !.jobs[j] = JobStart(@)]
    /\ returned' = NoCall
    /\ UNCHANGED <<next_uuid, tasks, response, lockVars, peerVars, sigVars>>

\* get_job_mut(j) then JobState::update_overall_status
ApiUpdateOverallStatus(j) ==
    /\ j \in DOMAIN job_queue.jobs
    /\ job_queue' = [job_queue EXCEPT !.jobs[j] = update_overall_status(@)]
    /\ returned' = NoCall
    /\ UNCHANGED <<next_uuid, tasks, response, lockVars, peerVars, sigVars>>

NextQueueApi ==
    \/ ScrapeMultiple
    \/ \E j \in JobIds : TaskStep(j)
    \/ \E j \in JobIds : ApiSetCurrentJob(j)
    \/ ApiStartNextJob
    \/ ApiClearCurrentJob
    \/ \E j \in JobIds : ApiMarkStarted(j)
    \/ \E j \in JobIds : ApiJobStart(j)
    \/ \E j \in JobIds : ApiUpdateOverallStatus(j)

\* the scraper service plus arbitrary calls of the queue's public methods
SpecQueueApi == Init /\ [][NextQueueApi]_vars

\* ------------------------------------------ the queue's methods, called
\* one after the other by a holder of the queue

QueueJobIds == 1..MaxQueued

\* create_job(accounts, download_path, headless)
CallCreateJob(accounts) ==
    /\ next_uuid < MaxQueued
    /\ next_uuid' = next_uuid + 1
    /\ job_queue' = create_job(job_queue, next_uuid + 1, accounts)
    /\ returned' = [call |-> "create_job", queue |-> job_queue,
                    value |-> next_uuid + 1]
    /\ UNCHANGED <<tasks, response, lockVars, peerVars, sigVars>>

\* start_next_job()
CallStartNextJob ==
    /\ job_queue' = start_next_job(job_queue)
    /\ returned' = [call |-> "start_next_job", queue |-> job_queue,
                    value |-> start_next_job_result(job_queue)]
    /\ UNCHANGED <<next_uuid, tasks, response, lockVars, peerVars, sigVars>>

\* cleanup_old_jobs(max_age_secs) when the jobs up to last_old are too old
ApiCleanupOldJobs(last_old) ==
    /\ job_queue' = cleanup_old_jobs(job_queue, last_old)
    /\ returned' = NoCall
    /\ UNCHANGED <<next_uuid, tasks, response, lockVars, peerVars, sigVars>>

NextQueueCalls ==
    \/ \E accounts \in SeqsUpTo(Users, MaxAccounts) : CallCreateJob(accounts)
    \/ CallStartNextJob
    \/ \E j \in QueueJobIds : ApiSetCurrentJob(j)
    \/ ApiClearCurrentJob
    \/ \E j \in QueueJobIds : ApiMarkStarted(j)
    \/ \E j \in QueueJobIds : ApiCleanupOldJobs(j)

SpecQueueCalls == Init /\ [][NextQueueCalls]_vars

\* ------------------------------------- signaling client (signaling.rs)

\* frames the server may send: the text frames auth_ok, auth_error and
\* offer (answer, ice, error and app_registered are dispatched like offer),
\* a Close frame and a socket error. The wired specifications follow
\* registration only
ServerFrames ==
    IF wiring = "none"
    THEN {"auth_ok", "offer", "close", "ws_error"}
    ELSE {"auth_ok", "auth_error", "close"}

\* the callback handle_message (or the read loop) invokes for a frame
CallbackOf(type) ==
    IF type = "auth_ok" THEN "on_authenticated"
    ELSE IF type = "auth_error" THEN "on_auth_error"
    ELSE IF type = "app_registered" THEN "on_app_registered"
    ELSE IF type = "offer" THEN "on_offer"
    ELSE IF type = "answer" THEN "on_answer"
    ELSE IF type = "ice" THEN "on_ice"
    ELSE IF type = "close" THEN "on_disconnected"
    ELSE "on_error"

\* is_connected(): connected and authenticated
is_connected == client_state.is_connected /\ client_state.is_authenticated

\* the server puts a frame on an open connection
ServerSend(c, type) ==
    /\ read_task[c] \notin {"none", "exited"}
    /\ Len(inbox[c]) < MaxFrames
    /\ \A i \in DOMAIN inbox[c] : inbox[c][i].type \notin {"close", "ws_error"}
    /\ inbox' = [inbox EXCEPT ![c] =
                    Append(@, [type |-> type, late |-> close_returned,
                               request_id |-> None])]
    /\ UNCHANGED <<jobVars, peerVars, client_lock, client_state, send_tx,
                   connections, connector, reconnect, main, read_task,
                   write_task, read_pos, handed, written, callbacks,
                   close_returned>>

\* connect(), first part: the WebSocket is opened (Err when that fails),
\* is_connected is set and on_connected is invoked. The handler of
\* run_p2p_client takes state.read() and then asks for client.read()
ConnectOpen(ok) ==
    /\ connector = "idle"
    /\ connections < MaxConns
    /\ IF ok
       THEN /\ wiring = "client" => CanRead(state_lock)
            /\ connections' = connections + 1
            /\ client_state' = [client_state EXCEPT !.is_connected = TRUE]
            /\ callbacks' = callbacks \cup
                   {[cb |-> "on_connected", conn |-> connections + 1,
                     late |-> FALSE]}
            /\ state_lock' = IF wiring = "client"
                             THEN [state_lock EXCEPT
                                      !.readers = @ \cup {ReconnectTask}]
                             ELSE state_lock
            /\ connector' = "on_connected"
       ELSE UNCHANGED <<connections, client_state, callbacks, state_lock,
                        connector>>
    /\ UNCHANGED <<jobVars, wiring, ice_candidates, signaled, data_arm, peers, peer_counter, offer, pump, conn,
                   closing, emitted, received, rx_alive, cleaned, peers_to_close, handling, sent,
                   data_channel, bridge_mutex, client_lock, send_tx,
                   reconnect, main, read_task, write_task, inbox, read_pos,
                   handed, written, close_returned>>

\* connect(), second part: on_connected returns (in run_p2p_client once
\* client.read() is granted and register_app has run on the old send_tx),
\* the send channel is created, auth is sent on it and the write and read
\* tasks are spawned
ConnectFinish ==
    /\ connector = "on_connected"
    /\ wiring = "client" => CanRead(client_lock)
    /\ state_lock' = [state_lock EXCEPT !.readers = @ \ {ReconnectTask}]
    /\ send_tx' = connections
    /\ handed' = [(IF wiring = "client"
                   THEN send_message(handed, WSMessage("app_register", None))
                   ELSE handed) EXCEPT ![connections] =
                       <<WSMessage("auth", None)>>]
    /\ write_task' = [write_task EXCEPT ![connections] = "running"]
    /\ read_task' = [read_task EXCEPT ![connections] = "recv"]
    /\ connector' = "idle"
    /\ UNCHANGED <<jobVars, wiring, ice_candidates, signaled, data_arm, peers, peer_counter, offer, pump, conn,
                   closing, emitted, received, rx_alive, cleaned, peers_to_close, handling, sent,
                   data_channel, bridge_mutex, client_lock, client_state,
                   connections, reconnect, main, inbox, read_pos, written,
                   callbacks, close_returned>>

\* the write task takes the next message and writes it to the socket; on a
\* write error it clears is_connected and ends
WriteTaskSend(c, ok) ==
    /\ write_task[c] = "running"
    /\ written[c] < Len(handed[c])
    /\ IF ok
       THEN /\ written' = [written EXCEPT ![c] = @ + 1]
            /\ UNCHANGED <<write_task, client_state>>
       ELSE /\ write_task' = [write_task EXCEPT ![c] = "exited"]
            /\ client_state' = [client_state EXCEPT !.is_connected = FALSE]
            /\ UNCHANGED written
    /\ UNCHANGED <<jobVars, peerVars, client_lock, send_tx, connections,
                   connector, reconnect, main, read_task, inbox, read_pos,
                   handed, callbacks, close_returned>>

\* send_rx.recv() returns None once every sender is dropped and the channel
\* is empty: the write task ends and drops its half of the socket
WriteTaskExit(c) ==
    /\ write_task[c] = "running"
    /\ written[c] = Len(handed[c])
    /\ send_tx # c
    /\ write_task' = [write_task EXCEPT ![c] = "exited"]
    /\ UNCHANGED <<jobVars, peerVars, client_lock, client_state, send_tx,
                   connections, connector, reconnect, main, read_task, inbox,
                   read_pos, handed, written, callbacks, close_returned>>

\* the read task goes on reading while the handler runs
spawn_handler(c, handler) == read_task

\* handle_message(..).await and handler.on_*(..).await inside it: the read
\* task takes no further frame until the handler has returned
await_handler(c, handler) == [read_task EXCEPT ![c] = handler]

\* a handler that tears the peers down when signaling is lost
on_disconnected_drain(ps) == {}

\* on_disconnected of both wirings: state.read().await and a log line with
\* the peer count; the map it leaves behind
on_disconnected(ps) == ps

\* the read task takes the next frame. A text frame goes through
\* handle_message: auth_ok sets is_authenticated, and the callback for the
\* type is invoked. A Close frame or a socket error ends the task, which
\* clears both flags. on_authenticated of run_p2p_service takes state.read()
\* and then asks for client.read(); on_disconnected takes state.read()
ReadTaskRecv(c) ==
    /\ read_task[c] = "recv"
    /\ read_pos[c] < Len(inbox[c])
    /\ LET frame == inbox[c][read_pos[c] + 1]
           ends == frame.type \in {"close", "ws_error"}
           registers == frame.type = "auth_ok" /\ wiring = "service"
       IN /\ wiring # "none" => frame.type # "offer"
          /\ read_pos' = [read_pos EXCEPT ![c] = @ + 1]
          /\ callbacks' = callbacks \cup
                 {[cb |-> CallbackOf(frame.type), conn |-> c,
                   late |-> frame.late]}
          /\ client_state' =
                 IF ends THEN [is_connected |-> FALSE,
                               is_authenticated |-> FALSE]
                 ELSE IF frame.type = "auth_ok"
                      THEN [client_state EXCEPT !.is_authenticated = TRUE]
                      ELSE client_state
          /\ (registers \/ (frame.type = "close" /\ wiring # "none"))
                 => CanRead(state_lock)
          /\ state_lock' = IF registers
                           THEN [state_lock EXCEPT
                                    !.readers = @ \cup {ReadTask(c)}]
                           ELSE state_lock
          /\ peers' = IF frame.type = "close" /\ wiring # "none"
                      THEN on_disconnected(peers)
                      ELSE peers
          /\ read_task' = IF ends THEN [read_task EXCEPT ![c] = "exited"]
                          ELSE IF registers
                               THEN await_handler(c, "on_authenticated")
                               ELSE read_task
    /\ UNCHANGED <<jobVars, wiring, ice_candidates, signaled, data_arm, peer_counter, offer, pump, conn,
                   closing, emitted, received, rx_alive, cleaned, peers_to_close, handling, sent,
                   data_channel, bridge_mutex, client_lock, send_tx,
                   connections, connector, reconnect, main, write_task, inbox,
                   handed, written, close_returned>>

\* on_authenticated of run_p2p_service, from the grant of client.read():
\* register_app, then the guards are dropped and the read task goes on
OnAuthenticatedRegister(c) ==
    /\ read_task[c] = "on_authenticated"
    /\ CanRead(client_lock)
    /\ handed' = send_message(handed, WSMessage("app_register", None))
    /\ state_lock' = [state_lock EXCEPT !.readers = @ \ {ReadTask(c)}]
    /\ read_task' = [read_task EXCEPT ![c] = "recv"]
    /\ UNCHANGED <<jobVars, wiring, ice_candidates, signaled, data_arm, peers, peer_counter, offer, pump, conn,
                   closing, emitted, received, rx_alive, cleaned, peers_to_close, handling, sent,
                   data_channel, bridge_mutex, client_lock, client_state,
                   send_tx, connections, connector, reconnect, main,
                   write_task, inbox, read_pos, written, callbacks,
                   close_returned>>

\* close(): both flags cleared, send_tx dropped
close ==
    /\ client_state' = [is_connected |-> FALSE, is_authenticated |-> FALSE]
    /\ send_tx' = 0
    /\ close_returned' = TRUE

\* ----------------------------------------- the client used directly

ApiConnect(ok) ==
    /\ reconnect = "none"
    /\ ~close_returned
    /\ ConnectOpen(ok)

ApiClose ==
    /\ reconnect = "none"
    /\ connector = "idle"
    /\ connections > 0
    /\ ~close_returned
    /\ close
    /\ UNCHANGED <<jobVars, peerVars, client_lock, connections, connector,
                   reconnect, main, read_task, write_task, inbox, read_pos,
                   handed, written, callbacks>>

NextSignalingApi ==
    \/ \E ok \in BOOLEAN : ApiConnect(ok)
    \/ ConnectFinish
    \/ ApiClose
    \/ \E c \in ConnIds : \E type \in ServerFrames : ServerSend(c, type)
    \/ \E c \in ConnIds : ReadTaskRecv(c)
    \/ \E c \in ConnIds : \E ok \in BOOLEAN : WriteTaskSend(c, ok)
    \/ \E c \in ConnIds : WriteTaskExit(c)

SpecSignalingApi == InitSignalingApi /\ [][NextSignalingApi]_vars

\* ------------------------------------------- the wiring (main.rs)

\* the reconnect task: client.write().await, kept for the whole
\* connect_with_reconnect call
ReconnectStart ==
    /\ reconnect = "start"
    /\ CanWrite(client_lock)
    /\ client_lock' = [client_lock EXCEPT !.writer = ReconnectTask]
    /\ reconnect' = "loop"
    /\ UNCHANGED <<jobVars, peerVars, client_state, send_tx, connections,
                   connector, main, read_task, write_task, inbox, read_pos,
                   handed, written, callbacks, close_returned>>

\* connect_with_reconnect: the loop calls connect() while the client is not
\* connected, and again after a backoff when that fails
ReconnectConnect(ok) ==
    /\ reconnect = "loop"
    /\ ~client_state.is_connected
    /\ ConnectOpen(ok)

\* an auth_error was received: the loop stops reconnecting
AuthErrorSeen == \E r \in callbacks : r.cb = "on_auth_error"

\* connect_with_reconnect returns, on the sentinel left by close() or after
\* an auth error, and the task drops the write guard
ReconnectReturn ==
    /\ reconnect = "loop"
    /\ connector = "idle"
    /\ close_returned \/ AuthErrorSeen
    /\ client_lock' = [client_lock EXCEPT !.writer = NoTask]
    /\ reconnect' = "returned"
    /\ UNCHANGED <<jobVars, peerVars, client_state, send_tx, connections,
                   connector, main, read_task, write_task, inbox, read_pos,
                   handed, written, callbacks, close_returned>>

\* the main task after its 2 s sleep: run_p2p_client takes client.read() and
\* calls register_app if is_connected(); run_p2p_service registers nothing
MainRegister ==
    /\ main = "sleep"
    /\ wiring = "client" => CanRead(client_lock)
    /\ handed' = IF wiring = "client" /\ is_connected
                 THEN send_message(handed, WSMessage("app_register", None))
                 ELSE handed
    /\ main' = "running"
    /\ UNCHANGED <<jobVars, peerVars, client_lock, client_state, send_tx,
                   connections, connector, reconnect, read_task, write_task,
                   inbox, read_pos, written, callbacks, close_returned>>

ReconnectStep ==
    \/ ReconnectStart
    \/ \E ok \in BOOLEAN : ReconnectConnect(ok)
    \/ ConnectFinish
    \/ ReconnectReturn

ReadTaskStep(c) ==
    \/ ReadTaskRecv(c)
    \/ OnAuthenticatedRegister(c)

WriteTaskStep(c) ==
    \/ \E ok \in BOOLEAN : WriteTaskSend(c, ok)
    \/ WriteTaskExit(c)

NextWiring ==
    \/ ReconnectStep
    \/ MainRegister
    \/ \E c \in ConnIds : \E type \in ServerFrames : ServerSend(c, type)
    \/ \E c \in ConnIds : ReadTaskStep(c)
    \/ \E c \in ConnIds : WriteTaskStep(c)

SpecWiring == Init /\ [][NextWiring]_vars

\* every task of the runtime that can take a step eventually takes one
SpecWiringFair ==
    /\ Init
    /\ [][NextWiring]_vars
    /\ WF_vars(ReconnectStep)
    /\ WF_vars(MainRegister)
    /\ \A c \in ConnIds : WF_vars(ReadTaskStep(c))
    /\ \A c \in ConnIds : WF_vars(WriteTaskStep(c))

\* ------------------------------- offers on the wired client (main.rs)

\* the requestId of an inbound offer: absent, or one of two strings
RequestIds == {"r1", "r2"}
OptionRequestIds == {None} \cup RequestIds

\* the server sends an offer with an optional requestId
ServerSendOffer(c, request_id) ==
    /\ wiring # "none"
    /\ read_task[c] \notin {"none", "exited"}
    /\ Cardinality({f \in ConnIds \X (1..(MaxFrames + MaxOffers)) :
                        /\ f[2] \in DOMAIN inbox[f[1]]
                        /\ inbox[f[1]][f[2]].type = "offer"}) < MaxOffers
    /\ \A i \in DOMAIN inbox[c] : inbox[c][i].type \notin {"close", "ws_error"}
    /\ inbox' = [inbox EXCEPT ![c] =
                    Append(@, [type |-> "offer", late |-> close_returned,
                               request_id |-> request_id])]
    /\ UNCHANGED <<jobVars, peerVars, client_lock, client_state, send_tx,
                   connections, connector, reconnect, main, read_task,
                   write_task, read_pos, handed, written, callbacks,
                   close_returned>>

\* the read task takes an offer: handle_message awaits
\* handler.on_offer(payload.sdp, msg.request_id), whose first part runs here
\* (when P2PPeer::new fails the handler returns at once)
ReadTaskOffer(c, new_ok) ==
    /\ wiring # "none"
    /\ read_task[c] = "recv"
    /\ read_pos[c] < Len(inbox[c])
    /\ LET frame == inbox[c][read_pos[c] + 1]
       IN /\ frame.type = "offer"
          /\ on_offer_new(new_ok, frame.request_id, c)
          /\ callbacks' = callbacks \cup
                 {[cb |-> "on_offer", conn |-> c, late |-> frame.late]}
    /\ read_pos' = [read_pos EXCEPT ![c] = @ + 1]
    /\ read_task' = IF new_ok THEN await_handler(c, "on_offer")
                    ELSE read_task
    /\ UNCHANGED <<client_lock, client_state, send_tx, connections, connector,
                   reconnect, main, write_task, inbox, handed, written,
                   close_returned>>

\* the rest of the handler, awaited by the read task; send_answer succeeds
\* exactly when the send channel takes the message
OnOfferStep ==
    \/ \E ok \in BOOLEAN : OnOfferCreateAnswer(ok)
    \/ OnOfferSendAnswer(CanSend)
    \/ OnOfferFlushIce
    \/ OnOfferDropRead
    \/ OnOfferInsert

\* the wired program on a socket that takes every write, with a server that
\* also sends offers
NextOffers ==
    \/ ReconnectStep
    \/ MainRegister
    \/ \E c \in ConnIds : \E type \in ServerFrames : ServerSend(c, type)
    \/ \E c \in ConnIds : ReadTaskStep(c)
    \/ \E c \in ConnIds : WriteTaskSend(c, TRUE)
    \/ \E c \in ConnIds : \E r \in OptionRequestIds : ServerSendOffer(c, r)
    \/ \E c \in ConnIds : \E new_ok \in BOOLEAN : ReadTaskOffer(c, new_ok)
    \/ OnOfferStep

SpecOffers == Init /\ [][NextOffers]_vars

\* ------------------------------- peers while signaling comes and goes

\* the reconnect task, the read tasks and the server's frames next to
\* on_offer (invoked as in SpecPeers), the callbacks and the pump of the
\* first peer
NextOutage ==
    \/ on_offer
    \/ EventPump(1)
    \/ PeerCallbacks(1)
    \/ ReconnectStep
    \/ \E c \in ConnIds : \E type \in ServerFrames : ServerSend(c, type)
    \/ \E c \in ConnIds : ReadTaskStep(c)

SpecOutage == Init /\ [][NextOutage]_vars

\* ------------------------------------------- shutdown (main.rs)

\* tokio::signal::ctrl_c() (or the service's shutdown channel) resolves
ShutdownSignal ==
    /\ main = "running"
    /\ main' = "shutdown"
    /\ UNCHANGED <<jobVars, peerVars, client_lock, client_state, send_tx,
                   connections, connector, reconnect, read_task, write_task,
                   inbox, read_pos, handed, written, callbacks, close_returned>>

\* { let mut c = client.write().await; c.close().await } : the guard is
\* taken and dropped within the block
ShutdownClose ==
    /\ main = "shutdown"
    /\ CanWrite(client_lock)
    /\ close
    /\ main' = "join"
    /\ UNCHANGED <<jobVars, peerVars, client_lock, connections, connector,
                   reconnect, read_task, write_task, inbox, read_pos, handed,
                   written, callbacks>>

\* reconnect_handle.await: a task that never ran its body cannot have
\* finished either
ShutdownJoin ==
    /\ main = "join"
    /\ reconnect = "returned"
    /\ main' = "drain"
    /\ UNCHANGED <<jobVars, peerVars, client_lock, client_state, send_tx,
                   connections, connector, reconnect, read_task, write_task,
                   inbox, read_pos, handed, written, callbacks, close_returned>>

\* state.write().await and state.peers.drain(): run_p2p_client drops the
\* guard with the inner block, run_p2p_service keeps it over the loop
ShutdownDrain ==
    /\ main = "drain"
    /\ CanWrite(state_lock)
    /\ peers_to_close' = peers
    /\ peers' = {}
    /\ state_lock' = IF wiring = "service"
                     THEN [state_lock EXCEPT !.writer = MainTask]
                     ELSE state_lock
    /\ main' = "cleanup"
    /\ UNCHANGED <<jobVars, sigVars_but_main, wiring, ice_candidates, signaled, data_arm, peer_counter, offer,
                   pump, conn, closing, emitted, received, rx_alive, cleaned,
                   handling, sent, data_channel, bridge_mutex>>

\* one turn of the loop over the drained peers, peer.cleanup().await, or
\* its end: the guard is dropped, and run_p2p_service closes the client a
\* second time
ShutdownCleanup ==
    /\ main = "cleanup"
    /\ IF peers_to_close # {}
       THEN /\ \E p \in peers_to_close :
                   /\ peers_to_close' = peers_to_close \ {p}
                   /\ closing' = closing \cup {p}
                   /\ cleaned' = cleaned \cup {p}
            /\ UNCHANGED <<state_lock, main>>
       ELSE /\ state_lock' = IF state_lock.writer = MainTask
                             THEN [state_lock EXCEPT !.writer = NoTask]
                             ELSE state_lock
            /\ main' = IF wiring = "service" THEN "close_again" ELSE "done"
            /\ UNCHANGED <<peers_to_close, closing, cleaned>>
    /\ UNCHANGED <<jobVars, sigVars_but_main, wiring, ice_candidates, signaled, data_arm, peers, peer_counter,
                   offer, pump, conn, emitted, received, rx_alive, handling,
                   sent, data_channel, bridge_mutex>>

\* run_p2p_service: client.write().await and close() once more
ShutdownCloseAgain ==
    /\ main = "close_again"
    /\ CanWrite(client_lock)
    /\ close
    /\ main' = "done"
    /\ UNCHANGED <<jobVars, peerVars, client_lock, connections, connector,
                   reconnect, read_task, write_task, inbox, read_pos, handed,
                   written, callbacks>>

\* the main task from its sleep to the end of the shutdown sequence
MainStep ==
    \/ MainRegister
    \/ ShutdownClose
    \/ ShutdownJoin
    \/ ShutdownDrain
    \/ ShutdownCleanup
    \/ ShutdownCloseAgain

NextShutdown ==
    \/ ReconnectStep
    \/ MainStep
    \/ ShutdownSignal
    \/ \E c \in ConnIds : \E type \in ServerFrames : ServerSend(c, type)
    \/ \E c \in ConnIds : ReadTaskStep(c)
    \/ \E c \in ConnIds : WriteTaskStep(c)

SpecShutdown == Init /\ [][NextShutdown]_vars

\* every task of the runtime that can take a step eventually takes one;
\* the signal and the server's frames come when they come
SpecShutdownFair ==
    /\ Init
    /\ [][NextShutdown]_vars
    /\ WF_vars(ReconnectStep)
    /\ WF_vars(MainStep)
    /\ \A c \in ConnIds : WF_vars(ReadTaskStep(c))
    /\ \A c \in ConnIds : WF_vars(WriteTaskStep(c))

\* the shutdown sequence next to the offers of the wired client; the
\* write task's socket writes are left out, the peer map does not depend
\* on what reached the socket
NextShutdownOffers ==
    \/ ReconnectStep
    \/ MainStep
    \/ ShutdownSignal
    \/ \E c \in ConnIds : \E type \in ServerFrames : ServerSend(c, type)
    \/ \E c \in ConnIds : ReadTaskStep(c)
    \/ \E c \in ConnIds : \E r \in OptionRequestIds : ServerSendOffer(c, r)
    \/ \E c \in ConnIds : \E new_ok \in BOOLEAN : ReadTaskOffer(c, new_ok)
    \/ OnOfferStep

SpecShutdownOffers == Init /\ [][NextShutdownOffers]_vars

\* ------------------------------------- one data channel and its requests
NextCodec == DataArm
SpecCodec == Init /\ [][NextCodec]_vars

\* --------------------------- the codec's functions, called on their own
\* as the tests of grpc_handler.rs call them

\* message payloads: empty, one byte, and bytes that read like a data
\* frame, like a trailer frame and like the start of a frame
FrameMessages ==
    {<<>>, <<7>>, <<0, 0, 0, 0, 1, 9>>, <<1, 0, 0, 0, 0>>, <<0, 0, 0>>}
\* the status and optional message of the trailer frame
TrailerStatuses ==
    {[status |-> StatusOk, status_message |-> <<>>],
     [status |-> StatusInternal, status_message |-> <<TextNotFound>>],
     [status |-> StatusUnknown, status_message |-> <<<<>>>>]}

\* the data frames of msgs, one after the other
encode_data_frames(msgs) ==
    Concat([i \in 1..Len(msgs) |-> encode_grpc_data_frame(msgs[i])])

\* parse_grpc_frames on the data frames of msgs followed by a trailer frame
CallParseGrpcFrames(msgs, trailer) ==
    /\ LET data == encode_data_frames(msgs)
                       \o encode_trailer_frame(trailer.status,
                                               trailer.status_message)
       IN  returned' = [call |-> "parse_grpc_frames",
                        args |-> [msgs |-> msgs, trailer |-> trailer,
                                  data |-> data],
                        value |-> parse_grpc_frames(data)]
    /\ UNCHANGED <<job_queue, next_uuid, tasks, response, lockVars, peerVars, sigVars>>

\* request ids: none, "stream-1", one NUL character, one two-byte character
StreamRequestIds == {<<>>, TextStreamPrefix \o <<49>>, <<0>>, <<195, 169>>}
\* STREAM_FLAG_DATA, STREAM_FLAG_END and any other byte
StreamFlags == {0, 1, 255}
StreamData ==
    {<<>>, <<1>>, <<0, 0, 0, 1, 97, 0>>,
     encode_grpc_data_frame(<<7>>), encode_trailer_frame(StatusOk, <<>>)}

\* encode_stream_message(request_id, flag, data)
CallEncodeStreamMessage(request_id, flag, data) ==
    /\ returned' = [call |-> "encode_stream_message",
                    args |-> [request_id |-> request_id, flag |-> flag,
                              data |-> data],
                    value |-> encode_stream_message(request_id, flag, data)]
    /\ UNCHANGED <<job_queue, next_uuid, tasks, response, lockVars, peerVars, sigVars>>

NextCodecCalls ==
    \/ \E msgs \in SeqsUpTo(FrameMessages, MaxFrameList) :
          \E trailer \in TrailerStatuses : CallParseGrpcFrames(msgs, trailer)
    \/ \E request_id \in StreamRequestIds : \E flag \in StreamFlags :
          \E data \in StreamData :
             CallEncodeStreamMessage(request_id, flag, data)

SpecCodecCalls == Init /\ [][NextCodecCalls]_vars

\* ------------------------------------------------------------ job claims

Jobs == job_queue.jobs
Terminal(st) == st \in {"Completed", "Failed"}
RunningJobs == {j \in DOMAIN Jobs : Jobs[j].status = "Running"}
CountOf(seq, x) == Cardinality({i \in DOMAIN seq : seq[i] = x})

\* C1: in every reachable state at most one job of the queue has status
\* Running, whatever the interleaving of scrape_multiple calls and tasks.
C1_AtMostOneRunning == Cardinality(RunningJobs) <= 1

C7_TerminalNeverRunning ==
    [][\A j \in JobIds :
          (j \in DOMAIN Jobs /\ Terminal(Jobs[j].status) /\ j \in DOMAIN Jobs')
              => Jobs'[j].status # "Running"]_vars

\* C8: when a task has ended and some scraper call of it failed, every entry
\* of account_order was run, exactly the accounts whose call failed are Failed
\* with an error message, the job is Failed, fail_count and success_count are
\* the numbers of failed and of succeeded calls, and last_error is set.
C8_FailureIsolated ==
    \A j \in DOMAIN tasks :
        (tasks[j].pc = "done" /\ CountOf(tasks[j].outcomes, "Err") > 0) =>
            LET job == Jobs[j]
                out == tasks[j].outcomes
                failing == {job.account_order[i] :
                               i \in {k \in DOMAIN out : out[k] = "Err"}}
            IN  /\ Len(out) = Len(job.account_order)
                /\ \A u \in DOMAIN job.accounts :
                      (job.accounts[u].status = "Failed") <=> (u \in failing)
                /\ \A u \in failing : job.accounts[u].error_message # None
                /\ job.status = "Failed"
                /\ fail_count(job) = CountOf(out, "Err")
                /\ success_count(job) = CountOf(out, "Ok")
                /\ job.last_error # None

\* C9: a job is created Queued at the end of pending, and it becomes the
\* current job, or Running, only in a step that starts from an empty
\* current-job slot.
C9_QueuedUntilSlotFree ==
    [][\A j \in JobIds :
          /\ (j \notin DOMAIN Jobs /\ j \in DOMAIN Jobs') =>
                /\ Jobs'[j].status = "Queued"
                /\ job_queue'.pending = Append(job_queue.pending, j)
                /\ job_queue'.current_job_id = job_queue.current_job_id
          /\ (j \in DOMAIN Jobs /\ j \in DOMAIN Jobs'
                /\ Jobs[j].status = "Queued"
                /\ (Jobs'[j].status = "Running"
                      \/ job_queue'.current_job_id = Some(j)))
                => job_queue.current_job_id = NoJob]_vars

\* C16: an account result that is Completed or Failed is not Running (nor
\* Queued) in the next state, whatever account list the job was created with
C16_AccountNeverRunsAgain ==
    [][\A j \in JobIds :
          (j \in DOMAIN Jobs /\ j \in DOMAIN Jobs') =>
              \A u \in DOMAIN Jobs[j].accounts :
                  Terminal(Jobs[j].accounts[u].status) =>
                      Terminal(Jobs'[j].accounts[u].status)]_vars

\* C17: right after a task section that calls update_overall_status the
\* job status is what the account statuses alone say: Failed when all are
\* Completed or Failed and one is Failed, Completed when all are and none is
\* Failed, otherwise Running when an account is Running, otherwise Queued
AccountStatuses(job) == {job.accounts[u].status : u \in DOMAIN job.accounts}

ExpectedStatus(job) ==
    IF AccountStatuses(job) \subseteq {"Completed", "Failed"}
    THEN IF "Failed" \in AccountStatuses(job) THEN "Failed" ELSE "Completed"
    ELSE IF "Running" \in AccountStatuses(job) THEN "Running"
    ELSE "Queued"

C17_StatusFunctionOfAccounts ==
    [][\A j \in DOMAIN tasks :
          (/\ tasks[j].pc \in {"record", "finish"}
           /\ tasks'[j].pc # tasks[j].pc
           /\ j \in DOMAIN Jobs')
              => Jobs'[j].status = ExpectedStatus(Jobs'[j])]_vars

\* C18: when the task of a job has run to its end, every account of the job
\* is Completed or Failed: total_count = success_count + fail_count
C18_CountsAddUp ==
    \A j \in DOMAIN tasks :
        tasks[j].pc = "done" =>
            /\ j \in DOMAIN Jobs
            /\ total_count(Jobs[j]) = success_count(Jobs[j]) + fail_count(Jobs[j])
            /\ \A u \in DOMAIN Jobs[j].accounts :
                   Terminal(Jobs[j].accounts[u].status)

\* a finished job of two accounts, the first failed and the second succeeded
C18_Witness ==
    \E j \in DOMAIN tasks :
        /\ tasks[j].pc = "done"
        /\ tasks[j].outcomes = <<"Err", "Ok">>
        /\ total_count(Jobs[j]) = 2
        /\ success_count(Jobs[j]) = 1
        /\ fail_count(Jobs[j]) = 1

\* C19: a scrape_multiple call with an empty account list answers
\* InvalidArgument, leaves jobs, pending and the current-job slot as they
\* were and spawns no task
C19_EmptyListRejected ==
    [][(\E dir_ok \in BOOLEAN : scrape_multiple(<<>>, dir_ok))
          => /\ response'.code = "InvalidArgument"
             /\ job_queue' = job_queue
             /\ tasks' = tasks
             /\ next_uuid' = next_uuid]_vars

\* an empty request was just rejected while a job was running and another
\* one was pending
C19_Witness ==
    /\ response.code = "InvalidArgument"
    /\ job_queue.current_job_id # NoJob
    /\ job_queue.pending # <<>>

\* ------------------------------------------------------ claims: peers

\* the pump of peer p has handled Disconnected (it is past the removal)
HandledDisconnected(p) == pump[p] \in {"cleanup", "cleanup_wait", "exited"}

\* C2: once the event pump of a peer has handled Disconnected, the peer ID is
\* not a key of the peer map, in that state and in every later one, whatever
\* the interleaving with on_offer.
C2_HandledPeerNotInMap ==
    \A p \in PeerIds : HandledDisconnected(p) => p \notin peers

\* C3: a call through the bridge holds the handler mutex only while the
\* handler is called; it no longer holds it while the response body is
\* collected.
C3_MutexFreeDuringCollect ==
    \A p \in PeerIds :
        pump[p] = "bridge_collect" => bridge_mutex # PumpTask(p)

\* C10: over any sequence of state changes a peer puts Disconnected on its
\* event stream exactly once, and nothing follows it.
C10_DisconnectedOnceAndLast ==
    \A p \in PeerIds :
        /\ CountOf(emitted[p], "Disconnected") <= 1
        /\ conn[p] \in DownStates => CountOf(emitted[p], "Disconnected") = 1
        /\ \A i \in 1..Len(emitted[p]) :
               emitted[p][i] = "Disconnected" => i = Len(emitted[p])

\* C12: no task is parked at an await while it holds the write lock on the
\* peer map: a pump waiting for peer.cleanup() to return has let go of it
C12_NoAwaitUnderStateWriteLock ==
    \A p \in PeerIds :
        pump[p] = "cleanup_wait" => state_lock.writer # PumpTask(p)

\* C13: for one peer the pump answers the DataReceived events in the order
\* they arrived: every message sent belongs to a request already taken from
\* the channel, the messages of one request are sent together, before any
\* message of a later request, and the request being worked on is the last
\* event taken
HandlingRequest(p) ==
    pump[p] \in {"bridge_lock", "bridge_call", "bridge_collect", "send"}

C13_ResponsesInRequestOrder ==
    \A p \in PeerIds :
        /\ \A i \in 1..Len(sent[p]) :
               /\ sent[p][i] \in 1..received[p]
               /\ emitted[p][sent[p][i]] = "DataReceived"
        /\ \A i, j \in 1..Len(sent[p]) : i < j => sent[p][i] <= sent[p][j]
        /\ HandlingRequest(p) =>
               /\ handling[p] = received[p]
               /\ \A i \in 1..Len(sent[p]) : sent[p][i] < handling[p]

\* two requests of one peer answered, the first with a stream of messages
C13_Witness ==
    \E p \in PeerIds :
        /\ Len(sent[p]) = 3
        /\ sent[p][1] = sent[p][2]
        /\ sent[p][2] < sent[p][3]

\* ------------------------------------------------- claims: signaling

\* the callbacks handle_message invokes for the text frames of the model
MessageCallbacks == {"on_authenticated", "on_offer"}

\* C4: after close() has returned, is_connected() is false in every later
\* state and no handler callback is invoked for a message that arrived on
\* the WebSocket after that point.
C4_ClosedClientIsSilent ==
    close_returned =>
        /\ ~is_connected
        /\ \A r \in callbacks : r.cb \in MessageCallbacks => ~r.late

\* auth_ok was received on connection c
AuthOkReceived(c) ==
    \E r \in callbacks : r.cb = "on_authenticated" /\ r.conn = c

\* an app_register was handed to the write task of connection c
AppRegisterHanded(c) ==
    \E i \in DOMAIN handed[c] : handed[c][i].msg_type = "app_register"

\* C5: each auth_ok received on a connection is eventually followed by an
\* app_register handed to the write task of that same connection, in both
\* wirings.
C5_AuthOkLeadsToAppRegister ==
    \A c \in ConnIds : AuthOkReceived(c) ~> AppRegisterHanded(c)

\* C14: the on_disconnected callback of the signaling client leaves the
\* peer map as it is and cleans up no peer, and the pumps stay where they
\* are; peers in the map go on answering requests while signaling is down
OnDisconnectedDelivered(c) ==
    \E r \in callbacks : r.cb = "on_disconnected" /\ r.conn = c

C14_OnDisconnectedKeepsPeers ==
    [][(\E c \in ConnIds : ~OnDisconnectedDelivered(c)
                            /\ OnDisconnectedDelivered(c)')
       => /\ peers' = peers
          /\ cleaned' = cleaned
          /\ closing' = closing
          /\ conn' = conn
          /\ pump' = pump
          /\ rx_alive' = rx_alive]_vars

\* signaling is down and a connected peer of the map is about to send the
\* response to a request
C14_Witness ==
    /\ \E c \in ConnIds : OnDisconnectedDelivered(c)
    /\ ~client_state.is_connected
    /\ offer.pc = "idle"
    /\ \E p \in peers : /\ pump[p] = "send"
                        /\ conn[p] = "Connected"
                        /\ p \notin cleaned

\* C15: close() hands back control only after the tasks of the connection
\* are gone: once it has returned, no write task and no read task is left
\* running
C15_CloseWaitsForTasks ==
    close_returned =>
        \A c \in ConnIds : /\ write_task[c] \in {"none", "exited"}
                            /\ read_task[c] \in {"none", "exited"}

\* ------------------------------------------------- claims: shutdown

\* C11: once the shutdown signal has been received the shutdown sequence
\* runs to its end: close() gets the client lock, the reconnect task is
\* joined, the peer map is drained and every drained peer cleaned up
C11_ShutdownTerminates ==
    (main = "shutdown") ~> (main = "done" /\ peers = {} /\ peers_to_close = {})

\* ------------------------------------------- claims: the request envelope
\* a response envelope with empty headers, no data frame and one trailer
\* frame of the two lines grpc-status and grpc-message
TrailerOnly(status, message) ==
    LET lines == TextGrpcStatus \o Decimal(status) \o CRLF
                     \o TextGrpcMessage \o message \o CRLF
    IN  <<0, 0, 0, 2, 123, 125>> \o <<1>> \o BE32(Len(lines)) \o lines

Malformed(request) == request.class \notin {"none", "well_formed"}

\* C20: a message that is no well-formed request envelope (too short, a
\* length past the end of the data, a path or headers that are not UTF-8,
\* headers that are no flat object of strings) is answered with exactly
\* one message, a trailer-only response with grpc-status 13 and the
\* parser's error as grpc-message (nothing is sent only if the channel was
\* closed meanwhile), and the arm goes on with the next message.
C20_MalformedAnsweredInternal ==
    /\ \A i \in 1..Len(data_arm.log) :
          LET e == data_arm.log[i]
              parsed == parse_request(e.request.data)
          IN  Malformed(e.request) =>
                /\ ~parsed.ok
                /\ parsed.err # <<>>
                /\ \/ e.sent = <<TrailerOnly(13, parsed.err)>>
                   \/ e.sent = <<>> /\ ~data_arm.open
    /\ (data_arm.pc = "send" /\ Malformed(data_arm.request)) =>
          data_arm.result =
              Unary(TrailerOnly(13, parse_request(data_arm.request.data).err))
    /\ data_arm.pc \in {"recv", "process", "send"}

\* a malformed request was answered with its trailer and the request after
\* it was served on the same open channel
C20_Witness ==
    /\ Len(data_arm.log) = 2
    /\ data_arm.open
    /\ data_arm.pc = "recv"
    /\ data_arm.log[1].request.class = "headers_not_flat"
    /\ Len(data_arm.log[1].sent) = 1
    /\ data_arm.log[2].request.class = "well_formed"
    /\ Len(data_arm.log[2].sent) = 3

\* ------------------------------------------- claims: the service bridge
\* the status the handler produced: the one in the headers of its HTTP
\* response, or else the one in its trailers
HandlerStatus(http) ==
    LET m == IF KeyGrpcStatus \in DOMAIN http.headers THEN http.headers
             ELSE http.trailers
    IN  [code |-> parse_u32(m[KeyGrpcStatus]),
         message |-> IF KeyGrpcMessage \in DOMAIN m THEN <<m[KeyGrpcMessage]>>
                     ELSE <<>>]

\* a trailer frame with the line grpc-status and, if there is a message,
\* the line grpc-message
TrailerFrame(code, message) ==
    LET lines == TextGrpcStatus \o Decimal(code) \o CRLF
                     \o (IF message = <<>> THEN <<>>
                         ELSE TextGrpcMessage \o message[1] \o CRLF)
    IN  <<1>> \o BE32(Len(lines)) \o lines

EndsWith(text, suffix) ==
    /\ Len(text) >= Len(suffix)
    /\ SubSeq(text, Len(text) - Len(suffix) + 1, Len(text)) = suffix

\* C21: the trailer sent to the browser carries the status code and the
\* message the handler produced, be it in the headers or in the trailers of
\* its HTTP response; a status that is not OK is never sent as 0.
C21_TrailerCarriesHandlerStatus ==
    \A i \in 1..Len(data_arm.log) :
        LET e == data_arm.log[i]
            hs == HandlerStatus(e.served.outcome)
        IN  (e.served.outcome \in ServiceResponses /\ data_arm.open) =>
                /\ e.sent # <<>>
                /\ EndsWith(e.sent[Len(e.sent)],
                            TrailerFrame(hs.code, hs.message))

\* ------------------------------------------- claims: unary or streaming
\* the path's method, the text after the last slash, is StreamDownload
NamesStreamDownload(path) ==
    /\ EndsWith(path, <<47>> \o TextStreamDownload)

\* the request being answered or answered last parses, and this is what it
\* parses to
Processed == data_arm.pc \in {"send", "recv"} /\ Route(data_arm.request.data) # "none"
ParsedRequest == parse_request(data_arm.request.data)

RequestIdOf(parsed) ==
    IF TextXRequestId \in DOMAIN parsed.headers
    THEN {parsed.headers[TextXRequestId]}
    ELSE Uuids

FramesPart(data) ==
    LET path_len == FromBE32(data, 0)
        headers_len == FromBE32(data, 4 + path_len)
    IN  SubSeq(data, 8 + path_len + headers_len + 1, Len(data))

\* the payloads of the data frames of a sequence of whole frames, one after
\* the other
RECURSIVE DataPayloads(_)
DataPayloads(frames) ==
    IF Len(frames) < 5 THEN <<>>
    ELSE LET length == FromBE32(frames, 1)
         IN  IF Len(frames) < 5 + length THEN <<>>
             ELSE (IF frames[1] = 0 THEN SubSeq(frames, 6, 5 + length)
                   ELSE <<>>)
                      \o DataPayloads(SubSeq(frames, 6 + length, Len(frames)))

\* C23: the message parse_request keeps is the concatenation, in order, of
\* the payloads of all data frames of grpc_frames, trailer frames skipped,
\* and empty when there is no data frame.
C23_MessageIsAllDataFrames ==
    (Processed /\ data_arm.request.class = "well_formed") =>
        ParsedRequest.message = DataPayloads(FramesPart(data_arm.request.data))

\* ------------------------------------------- claims: stream envelopes
\* a stream envelope: the request id with its length, the flag, the data
StreamEnvelope(id, flag, data) == BE32(Len(id)) \o id \o <<flag>> \o data

\* the log entries answered with a Streaming result
StreamingEntries ==
    {i \in 1..Len(data_arm.log) :
        LET parsed == parse_request(data_arm.log[i].request.data)
        IN  /\ parsed.ok
            /\ Contains(parsed.path, TextStreamDownload)
            /\ TextXRequestId \in DOMAIN parsed.headers
            /\ StartsWith(parsed.headers[TextXRequestId], TextStreamPrefix)}

\* C24: a streaming response of n messages goes out as exactly n+1 stream
\* envelopes tagged with the request's id: n with flag 0 holding one data
\* frame each, in message order, then one with flag 1 holding the trailer,
\* and nothing after it (on a channel that stays open).
C24_StreamEnvelopes ==
    \A i \in StreamingEntries :
        LET e == data_arm.log[i]
            id == parse_request(e.request.data).headers[TextXRequestId]
            resp == call(e.served.outcome)
            n == Len(resp.messages)
        IN  data_arm.open =>
              /\ Len(e.sent) = n + 1
              /\ \A k \in 1..n :
                    e.sent[k] = StreamEnvelope(id, 0,
                        <<0>> \o BE32(Len(resp.messages[k]))
                            \o resp.messages[k])
              /\ e.sent[n + 1] = StreamEnvelope(id, 1,
                        TrailerFrame(resp.status, resp.status_message))

\* a streaming response of two messages went out as three envelopes and
\* the arm is back at receiving
C24_Witness ==
    /\ data_arm.pc = "recv"
    /\ data_arm.open
    /\ \E i \in StreamingEntries :
          /\ Len(call(data_arm.log[i].served.outcome).messages) = 2
          /\ Len(data_arm.log[i].sent) = 3

\* ------------------------------------------- claims: the empty path
\* the line grpc-status of a trailer with the given code
StatusLine(code) == TextGrpcStatus \o Decimal(code) \o CRLF

\* C25: a request envelope with path_len = 0 is answered with grpc-status 3
\* (InvalidArgument).
C25_EmptyPathInvalidArgument ==
    \A i \in 1..Len(data_arm.log) :
        LET e == data_arm.log[i]
        IN  (e.request.class = "well_formed"
                /\ FromBE32(e.request.data, 0) = 0 /\ data_arm.open) =>
                /\ e.sent # <<>>
                /\ Contains(e.sent[Len(e.sent)],
                            StatusLine(StatusInvalidArgument))

\* ------------------------------------------- claims: reflection
\* a response envelope starts with these headers: the length and the JSON
\* object of the one member x-request-id
StartsWithRequestId(envelope, id) ==
    LET json == <<123, 34>> \o TextXRequestId \o <<34, 58, 34>> \o id
                    \o <<34, 125>>
    IN  SubSeq(envelope, 1, 4 + Len(json)) = BE32(Len(json)) \o json

\* C26: every reflection response, the error and not-configured ones
\* included, carries the header x-request-id with the value of the
\* request's x-request-id, or with the fresh UUID when the request has none.
C26_ReflectionEchoesRequestId ==
    \A i \in 1..Len(data_arm.log) :
        LET e == data_arm.log[i]
            parsed == parse_request(e.request.data)
        IN  (Route(e.request.data) = "reflection" /\ data_arm.open) =>
              /\ Len(e.sent) = 1
              /\ \E id \in RequestIdOf(parsed) :
                    StartsWithRequestId(e.sent[1], id)

\* reflection requests without and with an x-request-id were answered, one
\* of them by a caller without descriptor set
C26_Witness ==
    /\ Len(data_arm.log) = 2
    /\ data_arm.open
    /\ \A i \in 1..2 : Route(data_arm.log[i].request.data) = "reflection"
    /\ ~data_arm.log[1].served.fds
    /\ TextXRequestId \notin
          DOMAIN parse_request(data_arm.log[1].request.data).headers
    /\ data_arm.log[2].served.reflected.status = StatusInvalidArgument
    /\ TextXRequestId \in
          DOMAIN parse_request(data_arm.log[2].request.data).headers

\* ------------------------------------------- claims: offers and answers

\* the frame the read task of connection c took last
TakenFrame(c) == inbox[c][read_pos[c]]

\* the messages a step hands to the send channel of connection c
HandedBy(c) ==
    {i \in DOMAIN handed'[c] : i > Len(handed[c])}

\* C27: every answer handed to a send channel is sent by the on_offer call
\* the read task of some connection is awaiting, and carries the requestId
\* of the offer frame that read task took last: the requestId r of that
\* offer, or none when the offer had none, and never the requestId of
\* another offer
C27_AnswerCarriesRequestIdOfItsOffer ==
    [][\A c \in ConnIds : \A i \in HandedBy(c) :
          handed'[c][i].msg_type = "answer"
              => /\ offer.pc = "send_answer"
                 /\ offer.reader \in ConnIds
                 /\ read_task[offer.reader] = "on_offer"
                 /\ TakenFrame(offer.reader).type = "offer"
                 /\ handed'[c][i].request_id
                        = TakenFrame(offer.reader).request_id]_vars

\* the answers handed to the send channel of connection c, in order
Answers(c) == SelectSeq(handed[c], LAMBDA m : m.msg_type = "answer")

\* the offers the read task of connection c has taken, in order
OffersTaken(c) ==
    SelectSeq(SubSeq(inbox[c], 1, read_pos[c]), LAMBDA f : f.type = "offer")

\* two offers with different requestIds, one of them present, arrived on one
\* connection and both were answered on it with their own requestId
C27_Witness ==
    \E c \in ConnIds :
        /\ Len(OffersTaken(c)) = 2
        /\ Len(Answers(c)) = 2
        /\ OffersTaken(c)[1].request_id # OffersTaken(c)[2].request_id
        /\ OffersTaken(c)[1].request_id \in RequestIds
        /\ \A k \in 1..2 :
               Answers(c)[k].request_id = OffersTaken(c)[k].request_id

\* ------------------------------------- claims: one message at a time

\* a handler invoked for a frame of connection c has not returned yet:
\* on_offer up to its last step, or on_authenticated of run_p2p_service
\* (which holds state.read() until it returns)
HandlerInFlight(c) ==
    \/ offer.pc # "idle" /\ offer.reader = c
    \/ ReadTask(c) \in state_lock.readers

\* the callbacks invoked for frames of connection c
FrameCallbacks(cbs, c) == {r \in cbs : r.conn = c /\ r.cb # "on_connected"}

\* C28: the frames of one connection are handled in arrival order, one at a
\* time: the read task takes frame k+1 (and invokes its callback) only when
\* it has taken frames 1..k and the handler invoked for frame k has
\* returned, and a callback is invoked only for the frame that is taken
C28_OneMessageAtATime ==
    [][\A c \in ConnIds :
          /\ read_pos'[c] # read_pos[c]
                => /\ read_pos'[c] = read_pos[c] + 1
                   /\ ~HandlerInFlight(c)
                   /\ \E r \in FrameCallbacks(callbacks', c) :
                          r.cb = CallbackOf(inbox[c][read_pos'[c]].type)
          /\ FrameCallbacks(callbacks', c) # FrameCallbacks(callbacks, c)
                => read_pos'[c] = read_pos[c] + 1]_vars

\* the handler of an offer has returned after inserting its peer, the next
\* offer of the same connection was taken after that and its handler is
\* running
C28_Witness ==
    \E c \in ConnIds :
        /\ Len(OffersTaken(c)) = 2
        /\ 1 \in peers
        /\ offer.reader = c
        /\ offer.pc = "send_answer"

\* ------------------------------------------- claims: the queue's methods

\* start_next_job was called on a queue with an empty slot and a pending ID
StartNextJobStarts ==
    /\ returned.call = "start_next_job"
    /\ returned.queue.current_job_id = NoJob
    /\ returned.queue.pending # <<>>

\* the queue after the call has the oldest pending ID in the slot and no
\* longer in pending, whose other entries keep their order; the ID came back
OldestTakenFromPending ==
    LET id == Head(returned.queue.pending)
    IN  /\ returned.value = Some(id)
        /\ job_queue.current_job_id = Some(id)
        /\ job_queue.pending = Tail(returned.queue.pending)
        /\ id \notin Range(job_queue.pending)

\* the slot names a job of the jobs map, and its status is Running
CurrentJobIsRunning ==
    /\ job_queue.current_job_id # NoJob
    /\ job_queue.current_job_id[1] \in DOMAIN job_queue.jobs
    /\ current_job(job_queue).status = "Running"

\* C29: when start_next_job is called with no current job and a non-empty
\* pending list, the oldest pending job becomes the current job with status
\* Running, it is removed from pending while the other entries keep their
\* order, and its ID is returned; otherwise None is returned and the queue
\* is unchanged
C29_StartNextJob ==
    returned.call = "start_next_job"
        => IF StartNextJobStarts
           THEN /\ OldestTakenFromPending
                /\ CurrentJobIsRunning
           ELSE /\ returned.value = NoJob
                /\ job_queue = returned.queue

\* C30: create_job adds exactly one job, with status Queued and every
\* account Queued, appends its ID at the end of pending and returns that ID;
\* the current-job slot and every other job of the map are unchanged
C30_CreateJob ==
    returned.call = "create_job"
        => LET before == returned.queue
               id == returned.value
           IN  /\ id \notin DOMAIN before.jobs
               /\ DOMAIN job_queue.jobs = DOMAIN before.jobs \cup {id}
               /\ job_queue.jobs[id].status = "Queued"
               /\ \A u \in DOMAIN job_queue.jobs[id].accounts :
                      job_queue.jobs[id].accounts[u].status = "Queued"
               /\ DOMAIN job_queue.jobs[id].accounts
                      = Range(job_queue.jobs[id].account_order)
               /\ job_queue.pending = Append(before.pending, id)
               /\ job_queue.current_job_id = before.current_job_id
               /\ \A j \in DOMAIN before.jobs :
                      job_queue.jobs[j] = before.jobs[j]

\* create_job was called on a queue that holds a running current job and a
\* pending one, for a job with two accounts
C30_Witness ==
    /\ returned.call = "create_job"
    /\ returned.queue.current_job_id # NoJob
    /\ returned.queue.current_job_id[1] \in DOMAIN returned.queue.jobs
    /\ returned.queue.jobs[returned.queue.current_job_id[1]].status = "Running"
    /\ Len(returned.queue.pending) = 1
    /\ Len(job_queue.pending) = 2
    /\ Cardinality(DOMAIN job_queue.jobs[returned.value].accounts) = 2

\* ------------------------------------------- claims: frames round trip

\* C31: parse_grpc_frames applied to the data frames of a list of messages
\* followed by a trailer frame returns exactly the messages of the list, in
\* their order, and nothing for the trailer
C31_ParseReturnsTheMessages ==
    returned.call = "parse_grpc_frames"
        => returned.value = returned.args.msgs

\* three messages, one empty and one that reads like a trailer frame, came
\* back from their frames and a trailer with a status message
C31_Witness ==
    /\ returned.call = "parse_grpc_frames"
    /\ Len(returned.args.msgs) = 3
    /\ <<>> \in Range(returned.args.msgs)
    /\ <<1, 0, 0, 0, 0>> \in Range(returned.args.msgs)
    /\ returned.args.trailer.status_message # <<>>
    /\ returned.value = returned.args.msgs

\* the grammar of a stream message: a big-endian u32 length, that many
\* bytes of request id, one flag byte, the remaining bytes
decode_stream_message(bytes) ==
    LET len == FromBE32(bytes, 0)
    IN  [request_id |-> Slice(bytes, 4, 4 + len),
         flag |-> bytes[4 + len + 1],
         data |-> Slice(bytes, 4 + len + 1, Len(bytes))]

\* C32: decoding encode_stream_message(s, f, d) by its grammar gives back
\* the request id s, the flag f and the data d
C32_StreamMessageRoundTrip ==
    returned.call = "encode_stream_message"
        => /\ Len(returned.value) >= 5
           /\ decode_stream_message(returned.value)
                  = [request_id |-> returned.args.request_id,
                     flag |-> returned.args.flag,
                     data |-> returned.args.data]

\* a message with a non-empty request id, the end flag and data that itself
\* starts like a length was encoded and decoded
C32_Witness ==
    /\ returned.call = "encode_stream_message"
    /\ returned.args.request_id = TextStreamPrefix \o <<49>>
    /\ returned.args.flag = 1
    /\ returned.args.data = <<0, 0, 0, 1, 97, 0>>
    /\ decode_stream_message(returned.value).data = returned.args.data

\* C33: the background task holds the job queue's write lock only inside
\* its status-update sections, never across a scraper call, so a Health
\* RPC issued while an account is being scraped gets its read locks and
\* returns
C33_HealthDuringScrapeReturns ==
    (health.pc = "first_read" /\ health.during_scrape)
        ~> (health.pc = "returned")

\* the jobs a step takes out of the jobs map
JobsRemoved == (DOMAIN job_queue.jobs) \ (DOMAIN job_queue'.jobs)

\* C34: cleanup_old_jobs removes only jobs that are Completed or Failed (and
\* old enough); a job that is Queued or Running is never removed by it
C34_CleanupRemovesOnlyCompletedJobs ==
    [][\A id \in JobsRemoved :
          job_queue.jobs[id].status \in {"Completed", "Failed"}]_vars

\* the jobs whose background task has run its first section and not yet
\* its last
TasksExecuting ==
    {j \in DOMAIN tasks :
        tasks[j].pc \in {"load", "set_running", "scraping", "record", "finish"}}

\* C35: the current-job slot tracks the executing job: has_running_job()
\* is true exactly when some job has status Running, and while a job's
\* background task is between its start and its completion the slot holds
\* that job, whatever the interleaving of the submitted jobs
C35_SlotTracksExecutingJob ==
    /\ has_running_job(job_queue) <=> RunningJobs # {}
    /\ \A j \in TasksExecuting : job_queue.current_job_id = Some(j)

\* C36: in every state of the job queue every ID in pending and the ID in
\* the current-job slot name a job of the jobs map, and every pending job
\* has status Queued, after any sequence of create_job, set_current_job,
\* mark_started, start_next_job, clear_current_job and cleanup_old_jobs
C36_QueueIdsNameJobs ==
    /\ \A i \in 1..Len(job_queue.pending) :
          /\ job_queue.pending[i] \in DOMAIN job_queue.jobs
          /\ job_queue.jobs[job_queue.pending[i]].status = "Queued"
    /\ job_queue.current_job_id # NoJob
          => job_queue.current_job_id[1] \in DOMAIN job_queue.jobs

\* the shutdown sequence has drained the peer map
DrainDone == main \in {"cleanup", "close_again", "done"}

\* C37: once the shutdown sequence has drained the peer map the map stays
\* empty: no on_offer still in flight inserts a peer afterwards
C37_MapStaysEmptyAfterDrain == DrainDone => peers = {}

\* C38: in every state of the signaling client is_authenticated implies
\* is_connected: the client is never marked authenticated while its
\* connection is closed, was closed by close(), or its write side failed
C38_AuthenticatedImpliesConnected ==
    client_state.is_authenticated => client_state.is_connected

AnswerFailed(p) ==
    /\ conn[p] # "None"
    /\ offer.peer # p
    /\ p \notin peers
    /\ pump[p] \notin {"none", "cleanup", "cleanup_wait", "exited"}

\* C40: when create_answer fails nothing remains of the peer: it is not in
\* the peer map and its event pump ends instead of waiting for ever on the
\* peer's event stream
C40_FailedAnswerLeavesNothing ==
    \A p \in 1..MaxPeers : AnswerFailed(p) ~> (pump[p] = "exited")

====
